---- MODULE Spec2Model ----
(***************************************************************************)
(* AlephBot: the validation / transport / normalization layer between the  *)
(* chat commands and the Nakdan service (src/utils/nakdan_api.py), the     *)
(* WebSocket client of the Dicta translation service                      *)
(* (src/utils/dicta_api.py) and the chat commands (src/alephbot.py).       *)
(*                                                                         *)
(* Strings are sequences of Unicode code points.  Three machines share the *)
(* module, each idle while another runs:                                   *)
(*   - one invocation of analyze_text, get_lemmas or get_nikud:            *)
(*     validation, the tenacity retry loop around _call_nakdan_api,        *)
(*     normalization, and the NakdanResponse handed back (Spec);           *)
(*   - one call of DictaTranslateAPI.translate: the tenacity retry loop,   *)
(*     the connection and the frame-by-frame read loop (SpecTranslate);    *)
(*   - one invocation of a chat command around a Nakdan invocation         *)
(*     (SpecCommand);                                                      *)
(*   - the translate command and the TranslationView it sends, whose       *)
(*     Translate button calls DictaTranslateAPI.translate (SpecView).      *)
(***************************************************************************)
EXTENDS Integers, Sequences, FiniteSets, TLC

VARIABLES
    op,          \* the nakdan_api function that was invoked
    text,        \* its argument `text`
    max_length,  \* its argument `max_length`
    pc,          \* position inside the invocation
    attempt,     \* tenacity's attempt_number: attempts of _call_nakdan_api started
    requests,    \* the JSON bodies POSTed so far, in order
    exc,         \* the exception raised by the latest failed attempt (or NoExc)
    onlyTransient, \* history: every failed attempt so far was a transient failure
    data,        \* the value _call_nakdan_api returned (or NoData)
    result,      \* the NakdanResponse returned to the caller (or NoResult)
    clients,     \* the httpx.Client objects created so far: "open" or "closed"
    tpc,         \* position inside the translate call
    tattempt,    \* tenacity's attempt_number for translate
    conns,       \* the WebSocket connection of each attempt so far: state, frames sent, frames received
    translated_chunks, \* the local list of the read loop
    clock,       \* time spent waiting in ws.recv() during this call
    tout,        \* the string translate returned, or the exception of its latest failed attempt
    command,     \* the chat command that was invoked
    cpc,         \* position inside the command
    messages,    \* the chat messages rendered for the interaction, in order
    vpc,         \* position of the TranslationView the translate command sent
    direction,   \* the view's direction, passed to translate
    genre,       \* the view's genre, passed to translate
    acked,       \* the interaction being handled was acknowledged (deferred or answered)
    runs,        \* history: the earlier invocations of this process, with their results
    other,       \* a second translate call running on the same DictaTranslateAPI instance
    reloader     \* the BotReloader of run.py: its fields, its tasks and the bot processes

nakdanVars ==
    <<op, text, max_length, pc, attempt, requests, exc, onlyTransient, data, result, clients>>
translateVars == <<tpc, tattempt, conns, translated_chunks, clock, tout>>
commandVars == <<command, cpc, messages>>
viewVars == <<vpc, direction, genre, acked>>
vars == <<nakdanVars, translateVars, commandVars, viewVars, runs, other, reloader>>

----------------------------------------------------------------------------
(* Bounds of the model *)

MaxRuns == 3
MaxTextLen == 3
MaxTokens == 2

(* Program constants *)

MAX_TEXT_LENGTH == 500
stop_after_attempt == 3
HEBREW_FIRST == 1424
HEBREW_LAST == 1535
PRINTABLE_FIRST == 32
PRINTABLE_LAST == 126
SEPARATOR == 124

----------------------------------------------------------------------------
(* Code points used by the inputs: TAB, SPACE, 'a', ALEF *)
Alphabet == {9, 32, 97, 1488}

Texts == UNION {[1..n -> Alphabet] : n \in 0..MaxTextLen}

MaxLengths == 1..(MaxTextLen - 1)

Ops == {"analyze_text", "get_lemmas", "get_nikud"}

(* str.isspace(): the code points str.strip() and str.split() treat as whitespace *)
PyWhitespace ==
    {9, 10, 11, 12, 13, 28, 29, 30, 31, 32, 133, 160, 5760, 8232, 8233, 8239, 8287, 12288}
        \cup (8192..8202)

IsSpace(c) == c \in PyWhitespace

(* text.strip(): drop leading and trailing whitespace *)
RECURSIVE LStrip(_)
LStrip(s) == IF s # <<>> /\ IsSpace(Head(s)) THEN LStrip(Tail(s)) ELSE s

RECURSIVE RStrip(_)
RStrip(s) ==
    IF s # <<>> /\ IsSpace(s[Len(s)]) THEN RStrip(SubSeq(s, 1, Len(s) - 1)) ELSE s

Strip(s) == RStrip(LStrip(s))

(* is_hebrew with all() in place of any() *)
is_hebrew_all(s) == \A i \in 1..Len(s) : HEBREW_FIRST <= s[i] /\ s[i] <= HEBREW_LAST

(* is_hebrew: any code point in U+0590..U+05FF *)
is_hebrew(s) == \E i \in 1..Len(s) : HEBREW_FIRST <= s[i] /\ s[i] <= HEBREW_LAST

(* sanitize_input: re.sub(r'[^\x20-\x7E]', '', text) *)
sanitize_input(s) == SelectSeq(s, LAMBDA c : PRINTABLE_FIRST <= c /\ c <= PRINTABLE_LAST)

----------------------------------------------------------------------------
(* NakdanResponse and its error strings *)

(* an error string: a fixed text followed by str(e) of an exception (NoDetail if
   none); None is the absent error *)
NoDetail == [msg |-> "", cause |-> ""]
None == [isNone |-> TRUE, prefix |-> "", detail |-> NoDetail]
ErrorStr(p, d) == [isNone |-> FALSE, prefix |-> p, detail |-> d]

ERROR_MESSAGES ==
    [empty_text    |-> "Text cannot be empty",
     text_too_long |-> "Text exceeds maximum length of 500 characters",
     non_hebrew    |-> "Text must contain Hebrew characters"]

NoResult ==
    [set |-> FALSE, text |-> <<>>, error |-> None, word_analysis |-> <<>>,
     lemmas |-> <<>>, pos_tags |-> <<>>]
(* no caller passes lemmas or pos_tags: both keep their default, an empty list *)
NakdanResponse(t, e, wa) ==
    [set |-> TRUE, text |-> t, error |-> e, word_analysis |-> wa,
     lemmas |-> <<>>, pos_tags |-> <<>>]

(* the three tests of _check_text_requirements *)
TextIsEmpty(t) == Strip(t) = <<>>
(* the length test with >= in place of > *)
TextTooLongOffByOne(t, m) == Len(t) >= m

TextTooLong(t, m) == Len(t) > m
TextNotHebrew(t) == ~is_hebrew(t)

_check_text_requirements(t, m) ==
    IF TextIsEmpty(t) THEN NakdanResponse(<<>>, ErrorStr(ERROR_MESSAGES.empty_text, NoDetail), <<>>)
    ELSE IF TextTooLong(t, m)
        THEN NakdanResponse(<<>>, ErrorStr(ERROR_MESSAGES.text_too_long, NoDetail), <<>>)
    ELSE IF TextNotHebrew(t)
        THEN NakdanResponse(<<>>, ErrorStr(ERROR_MESSAGES.non_hebrew, NoDetail), <<>>)
    ELSE NoResult

----------------------------------------------------------------------------
(* Exceptions.  cause/causeMsg carry the exception a RetryError wraps. *)

Exc(t, m, st) == [type |-> t, msg |-> m, status |-> st, cause |-> "", causeMsg |-> ""]
NoExc == Exc("none", "", 0)

(* tenacity: RetryError(last_attempt), raised `from` the last attempt's exception *)
RetryError(last) ==
    [type |-> "RetryError", msg |-> "RetryError[<Future raised>]", status |-> 0,
     cause |-> last.type, causeMsg |-> last.msg]

(* isinstance(e, NakdanAPIError): the classes of nakdan_exceptions.py *)
IsNakdanAPIError(e) ==
    e.type \in {"NakdanAPIError", "NakdanConnectionError", "NakdanResponseError",
                "NakdanValidationError"}

(* isinstance(e, httpx.HTTPError): transport errors and HTTPStatusError *)
IsHTTPError(e) == e.type \in {"ConnectError", "TimeoutException", "HTTPStatusError"}

IsKeyError(e) == e.type = "KeyError"

(* str(e); the text of a RetryError names the exception of its last attempt *)
StrOf(e) == [msg |-> e.msg, cause |-> e.cause]

----------------------------------------------------------------------------
(* What the remote service can answer *)

W1 == <<1488>>            \* a word as segmented by the service
V1 == <<1488, 1464>>      \* its vowelized form: ALEF + QAMATS
V2 == <<8501>>            \* a candidate written with U+2135 ALEF SYMBOL

(* options[0] is the string val (isList = FALSE) or a list of elements, each a
   string or a list of lists of strings (isList = TRUE) *)
ElemStr(v) == [isStr |-> TRUE, s |-> v, l |-> <<>>]
ElemList(l) == [isStr |-> FALSE, s |-> <<>>, l |-> l]
OptStr(v) == [isList |-> FALSE, val |-> v, elems |-> <<>>]
OptList(es) == [isList |-> TRUE, val |-> <<>>, elems |-> es]

(* the value under the 'BGU' key of a token record: a string, or some other
   JSON value (null, a number) *)
BGUStr(v) == [isStr |-> TRUE, s |-> v]
BGUOther == [isStr |-> FALSE, s |-> <<>>]

DictItem(hasW, hasO, w, opts) ==
    [kind |-> "dict", hasWord |-> hasW, hasOptions |-> hasO, word |-> w, options |-> opts,
     hasBGU |-> FALSE, BGU |-> BGUOther]
StrItem(s) ==
    [kind |-> "str", hasWord |-> FALSE, hasOptions |-> FALSE, word |-> s, options |-> <<>>,
     hasBGU |-> FALSE, BGU |-> BGUOther]
OtherItem ==
    [kind |-> "other", hasWord |-> FALSE, hasOptions |-> FALSE, word |-> <<>>, options |-> <<>>,
     hasBGU |-> FALSE, BGU |-> BGUOther]
(* a token record that also has a 'BGU' key *)
WithBGU(item, bgu) == [item EXCEPT !.hasBGU = TRUE, !.BGU = bgu]

Items ==
    {DictItem(TRUE, TRUE, W1, <<OptStr(V1)>>),
     DictItem(TRUE, TRUE, W1, <<OptList(<<ElemStr(V2)>>)>>),
     DictItem(TRUE, TRUE, W1, <<>>),
     DictItem(FALSE, TRUE, <<>>, <<OptStr(V1)>>),
     DictItem(TRUE, FALSE, W1, <<>>),
     StrItem(<<32>>),
     OtherItem}

ItemLists == UNION {[1..n -> Items] : n \in 0..MaxTokens}

(* a JSON body: a list of items, or some other JSON value *)
ListBody(items) == [isList |-> TRUE, items |-> items]
NotListBody == [isList |-> FALSE, items |-> <<>>]
Bodies == {NotListBody} \cup {ListBody(l) : l \in ItemLists}

(* the outcome of client.post: a transport exception or an HTTP response *)
TransportFailure(t) == [kind |-> t, status |-> 0, isJson |-> FALSE, body |-> NotListBody]
HttpResponse(st, j, b) == [kind |-> "response", status |-> st, isJson |-> j, body |-> b]

Responses ==
    {TransportFailure("ConnectError"), TransportFailure("TimeoutException"),
     HttpResponse(404, TRUE, NotListBody), HttpResponse(503, TRUE, NotListBody),
     HttpResponse(200, FALSE, NotListBody)}
        \cup {HttpResponse(200, TRUE, b) : b \in Bodies}

NoData == [returned |-> FALSE, items |-> <<>>]
Returned(items) == [returned |-> TRUE, items |-> items]

----------------------------------------------------------------------------
(* _call_nakdan_api: one attempt *)

NakdanTask == [NAKDAN |-> "nakdan", ANALYZE |-> "analyze"]

(* the task each operation passes to _call_nakdan_api *)
TaskOf(o) == IF o = "get_nikud" THEN NakdanTask.NAKDAN ELSE NakdanTask.ANALYZE

(* the JSON body of the POST *)
Payload(t, task) ==
    IF task = "analyze"
    THEN [url |-> "nakdan-for-morph-analysis/addnikud", task |-> task, data |-> t]
    ELSE [url |-> "NAKDAN_BASE_URL/api", task |-> task, data |-> sanitize_input(t)]

(* the first item the validation loop rejects, 0 if none *)
FirstBadItem(items) ==
    LET bad == {i \in 1..Len(items) :
                   \/ items[i].kind = "dict" /\ (~items[i].hasWord \/ ~items[i].hasOptions)
                   \/ items[i].kind = "other"}
    IN IF bad = {} THEN 0 ELSE CHOOSE i \in bad : \A j \in bad : i <= j

(* the exception the response validation raises, NoExc if the payload passes *)
ValidateResponse(body) ==
    IF ~body.isList
    THEN Exc("NakdanResponseError", "Invalid response format: expected list", 0)
    ELSE LET i == FirstBadItem(body.items) IN
         IF i = 0 THEN NoExc
         ELSE IF body.items[i].kind = "dict"
              THEN IF ~body.items[i].hasWord
                   THEN Exc("NakdanResponseError", "Invalid word data: missing 'word' field", 0)
                   ELSE Exc("NakdanResponseError", "Invalid word data: missing 'options' field", 0)
              ELSE Exc("NakdanResponseError", "Invalid response item type", 0)

(* raise_for_status() raises for 4xx and 5xx *)
RaiseForStatus(st) ==
    IF st >= 400 THEN Exc("HTTPStatusError", "error status", st) ELSE NoExc

(* the body of _call_nakdan_api given what the service answered:
   [exc |-> the exception raised or NoExc, value |-> the value returned] *)
CallOnce(resp) ==
    IF resp.kind # "response" THEN [exc |-> Exc(resp.kind, "", 0), value |-> NoData]
    ELSE IF RaiseForStatus(resp.status) # NoExc
        THEN [exc |-> RaiseForStatus(resp.status), value |-> NoData]
    ELSE IF ~resp.isJson THEN [exc |-> Exc("JSONDecodeError", "", 0), value |-> NoData]
    ELSE IF ValidateResponse(resp.body) # NoExc
        THEN [exc |-> ValidateResponse(resp.body), value |-> NoData]
    ELSE [exc |-> NoExc, value |-> Returned(resp.body.items)]

(* a retry predicate that retries nothing *)
NeverRetry(e) == FALSE

(* tenacity's retry predicate: no `retry=` argument, so retry_if_exception_type()
   with its default, Exception: every exception is retried *)
ShouldRetry(e) == e # NoExc

(* a stop condition that lets one more attempt through *)
StopAfterOneMore(n) == n >= stop_after_attempt + 1

(* stop_after_attempt(3) *)
StopAfterAttempt(n) == n >= stop_after_attempt

(* a connection error, a timeout or a 5xx status *)
IsTransient(e) ==
    \/ e.type \in {"ConnectError", "TimeoutException"}
    \/ e.type = "HTTPStatusError" /\ e.status >= 500

----------------------------------------------------------------------------
(* Normalization *)

RECURSIVE Flatten(_)
Flatten(ss) == IF ss = <<>> THEN <<>> ELSE Head(ss) \o Flatten(Tail(ss))

(* Python's sep.join(parts) *)
RECURSIVE Join(_, _)
Join(parts, sep) ==
    IF parts = <<>> THEN <<>>
    ELSE IF Len(parts) = 1 THEN parts[1]
    ELSE parts[1] \o sep \o Join(Tail(parts), sep)

(* Hebrew(s).normalize().string of the hebrew package: a special character is
   replaced by its standard Hebrew letter (U+2135 ALEF SYMBOL by U+05D0 ALEF);
   every other code point is kept.  Each replacement is one code point for one *)
NormChar(c) == IF c = 8501 THEN <<1488>> ELSE <<c>>
HebrewNormalize(s) == [i \in 1..Len(s) |-> NormChar(s[i])[1]]

(* text.split(): the maximal runs of non-whitespace *)
RECURSIVE SplitFrom(_, _, _)
SplitFrom(t, i, cur) ==
    IF i > Len(t) THEN (IF cur = <<>> THEN <<>> ELSE <<cur>>)
    ELSE IF IsSpace(t[i])
        THEN (IF cur = <<>> THEN <<>> ELSE <<cur>>) \o SplitFrom(t, i + 1, <<>>)
    ELSE SplitFrom(t, i + 1, Append(cur, t[i]))

SplitWords(t) == SplitFrom(t, 1, <<>>)

(* text[a:b], 0-based *)
Slice(t, a, b) == SubSeq(t, a + 1, b)

(* text.find(word, start): the lowest 0-based index >= start, or -1 *)
Find(t, w, start) ==
    LET hits == {p \in start..(Len(t) - Len(w)) : p >= 0 /\ Slice(t, p, p + Len(w)) = w}
    IN IF hits = {} THEN -1 ELSE CHOOSE p \in hits : \A q \in hits : p <= q

(* get_nikud: the loop collecting the whitespace before each word, then the
   trailing whitespace *)
RECURSIVE CollectSpaces(_, _, _, _, _)
CollectSpaces(t, words, k, current_pos, original_spaces) ==
    IF k > Len(words)
    THEN Append(original_spaces,
                IF current_pos < Len(t) THEN Slice(t, current_pos, Len(t)) ELSE <<>>)
    ELSE LET word_pos == Find(t, words[k], current_pos)
             sp == IF word_pos > current_pos THEN Slice(t, current_pos, word_pos) ELSE <<>>
         IN CollectSpaces(t, words, k + 1, word_pos + Len(words[k]),
                          Append(original_spaces, sp))

OriginalSpaces(t) == CollectSpaces(t, SplitWords(t), 1, 0, <<>>)

(* a choice of form without fall-back: nothing when the first candidate is
   not a string *)
NikudFormNoFallback(item) ==
    IF item.kind = "dict"
    THEN IF item.hasOptions /\ item.options # <<>> /\ ~item.options[1].isList
         THEN item.options[1].val
         ELSE <<>>
    ELSE item.word

(* get_nikud: the form taken for one item of the response *)
NikudForm(item) ==
    IF item.kind = "dict"
    THEN IF item.hasOptions /\ item.options # <<>> /\ ~item.options[1].isList
         THEN item.options[1].val
         ELSE (IF item.hasWord THEN item.word ELSE <<>>)
    ELSE item.word

(* get_nikud: original_spaces[i] + normalized word, for each word *)
RECURSIVE JoinWithSpaces(_, _, _)
JoinWithSpaces(vowelized_words, original_spaces, i) ==
    IF i > Len(vowelized_words) THEN <<>>
    ELSE (IF i <= Len(original_spaces) THEN original_spaces[i] ELSE <<>>)
            \o HebrewNormalize(vowelized_words[i])
            \o JoinWithSpaces(vowelized_words, original_spaces, i + 1)

NikudText(t, items) ==
    LET original_spaces == OriginalSpaces(t)
        vowelized_words == [i \in 1..Len(items) |-> NikudForm(items[i])]
        joined == JoinWithSpaces(vowelized_words, original_spaces, 1)
        final == IF original_spaces # <<>> /\ Len(original_spaces) > Len(vowelized_words)
                 THEN joined \o original_spaces[Len(original_spaces)]
                 ELSE joined
    IN HebrewNormalize(final)

(* word.split('|') *)
RECURSIVE SplitOn(_, _, _)
SplitOn(w, sep, cur) ==
    IF w = <<>> THEN <<cur>>
    ELSE IF Head(w) = sep THEN <<cur>> \o SplitOn(Tail(w), sep, <<>>)
    ELSE SplitOn(Tail(w), sep, Append(cur, Head(w)))

MorphKeys ==
    {"word", "prefix", "suffix", "menukad", "lemma", "pos", "gender", "number", "person",
     "status", "tense", "binyan", "suf_gender", "suf_person", "suf_number"}

(* a word_analysis entry: the keys of the dict and their values *)
Analysis(keys, vals) == [keys |-> keys, val |-> [k \in MorphKeys |-> IF k \in keys THEN vals[k] ELSE <<>>]]
EmptyAnalysis == Analysis({}, [k \in MorphKeys |-> <<>>])

(* a split that never finds a separator: the whole token is the stem *)
_keep_whole_word(word) ==
    Analysis(MorphKeys, [k \in MorphKeys |-> IF k \in {"word", "menukad"} THEN word ELSE <<>>])

_process_word_parts(word) ==
    LET word_parts == SplitOn(word, SEPARATOR, <<>>)
        n == Len(word_parts)
        prefix == IF n > 1 /\ word_parts[1] # <<>> THEN word_parts[1] ELSE <<>>
        suffix == IF n > 2 THEN word_parts[n] ELSE <<>>
        menukad == IF n > 2 THEN Join(SubSeq(word_parts, 2, n - 1), <<SEPARATOR>>)
                   ELSE IF n > 1 THEN word_parts[2]
                   ELSE word
    IN Analysis(MorphKeys,
                [k \in MorphKeys |->
                    CASE k = "word" -> word
                      [] k = "prefix" -> prefix
                      [] k = "suffix" -> suffix
                      [] k = "menukad" -> menukad
                      [] OTHER -> <<>>])

(* the keys _process_bgu_field updates and the BGU column each is read from:
   'lex', 'POS', 'Gender', 'Number', 'Person', 'Tense', 'Binyan', 'Status' *)
BGUHeader ==
    [lemma  |-> <<108, 101, 120>>,
     pos    |-> <<80, 79, 83>>,
     gender |-> <<71, 101, 110, 100, 101, 114>>,
     number |-> <<78, 117, 109, 98, 101, 114>>,
     person |-> <<80, 101, 114, 115, 111, 110>>,
     tense  |-> <<84, 101, 110, 115, 101>>,
     binyan |-> <<66, 105, 110, 121, 97, 110>>,
     status |-> <<83, 116, 97, 116, 117, 115>>]

(* 'Suf_Gender', 'Suf_Person', 'Suf_Number': read only when the word has a suffix *)
BGUSuffixHeader ==
    [suf_gender |-> <<83, 117, 102, 95, 71, 101, 110, 100, 101, 114>>,
     suf_person |-> <<83, 117, 102, 95, 80, 101, 114, 115, 111, 110>>,
     suf_number |-> <<83, 117, 102, 95, 78, 117, 109, 98, 101, 114>>]

(* a lookup that reads the first column whatever its header *)
ZipGetFirstColumn(headers, values, key) == IF values = <<>> THEN <<>> ELSE values[1]

(* dict(zip(headers, values)).get(key, ''): zip stops at the shorter list and a
   later duplicate of a header replaces an earlier one *)
ZipGet(headers, values, key) ==
    LET n == IF Len(headers) < Len(values) THEN Len(headers) ELSE Len(values)
        at == {i \in 1..n : headers[i] = key}
    IN IF at = {} THEN <<>> ELSE values[CHOOSE i \in at : \A j \in at : j <= i]

(* a BGU handling that leaves the analysis as _process_word_parts made it *)
_skip_bgu_field(word_data, analysis) == analysis

(* _process_bgu_field: the analysis after the call.  The first line of the
   stripped BGU text holds tab-separated headers and the second the values; a
   BGU value without .strip() raises inside the try and is only logged *)
_process_bgu_field(word_data, analysis) ==
    IF ~word_data.hasBGU THEN analysis
    ELSE IF ~word_data.BGU.isStr THEN analysis
    ELSE LET bgu_lines == SplitOn(Strip(word_data.BGU.s), 10, <<>>) IN
         IF Len(bgu_lines) >= 2
         THEN LET headers == SplitOn(bgu_lines[1], 9, <<>>)
                  values == SplitOn(bgu_lines[2], 9, <<>>)
                  updated == DOMAIN BGUHeader \cup
                             (IF analysis.val["suffix"] # <<>> THEN DOMAIN BGUSuffixHeader ELSE {})
              IN [analysis EXCEPT !.val =
                     [k \in MorphKeys |->
                         IF k \notin updated THEN analysis.val[k]
                         ELSE IF k \in DOMAIN BGUHeader
                              THEN ZipGet(headers, values, BGUHeader[k])
                              ELSE ZipGet(headers, values, BGUSuffixHeader[k])]]
         ELSE analysis

(* _process_word_data: (vowelized_form, analysis); no item of this model has a
   UD key, so _process_ud_field returns at once *)
_process_word_data(item) ==
    LET word == IF item.hasWord THEN item.word ELSE <<>>
        options == IF item.hasOptions THEN item.options ELSE <<>>
        vowelized_form ==
            IF options # <<>> /\ options[1].isList /\ Len(options[1].elems) > 0
            THEN (IF options[1].elems[1].isStr THEN options[1].elems[1].s ELSE word)
            ELSE word
    IN [vowelized_form |-> vowelized_form,
        analysis |-> _process_bgu_field(item, _process_word_parts(word))]

AnalyzeText(items) ==
    LET vowelized_words ==
            [i \in 1..Len(items) |->
                IF items[i].kind = "dict" THEN _process_word_data(items[i]).vowelized_form
                ELSE items[i].word]
    IN HebrewNormalize(Join(vowelized_words, <<>>))

AnalyzeWordAnalysis(items) ==
    [i \in 1..Len(items) |->
        IF items[i].kind = "dict" THEN _process_word_data(items[i]).analysis
        ELSE EmptyAnalysis]

(* get_lemmas: options[0][1][0][1] when that path exists, else the word *)
Lemma(item) ==
    LET word == IF item.hasWord THEN item.word ELSE <<>>
        options == IF item.hasOptions THEN item.options ELSE <<>>
    IN IF options # <<>> /\ options[1].isList
       THEN LET first_option == options[1].elems IN
            IF Len(first_option) >= 2 /\ ~first_option[2].isStr
            THEN LET morph_data == first_option[2].l IN
                 IF Len(morph_data) >= 1
                 THEN (IF Len(morph_data[1]) > 1 THEN morph_data[1][2] ELSE word)
                 ELSE word
            ELSE word
       ELSE word

(* a JSON value that is not a string (null, a number): kept apart from every
   string, whose code points are not negative *)
NotStr == <<-1>>
IsStr(v) == \A i \in 1..Len(v) : v[i] >= 0

(* get_lemmas: lemmatized_words *)
LemmatizedWords(items) ==
    [i \in 1..Len(items) |-> IF items[i].kind = "dict" THEN Lemma(items[i]) ELSE items[i].word]

LemmaText(items) == Join(LemmatizedWords(items), <<32>>)

(* ' '.join(lemmatized_words) raises TypeError when an element is not a str *)
JoinRaises(words) == \E i \in 1..Len(words) : ~IsStr(words[i])

LemmaWordAnalysis(items) ==
    [i \in 1..Len(items) |->
        IF items[i].kind = "dict"
        THEN Analysis({"word", "lemma"},
                      [k \in MorphKeys |->
                          CASE k = "word" -> (IF items[i].hasWord THEN items[i].word ELSE <<>>)
                            [] k = "lemma" -> Lemma(items[i])
                            [] OTHER -> <<>>])
        ELSE EmptyAnalysis]

(* a construction without the validator of `text` *)
ConstructUnvalidated(t, wa) == [exc |-> NoExc, value |-> NakdanResponse(t, None, wa)]

(* NakdanResponse(text=..., word_analysis=...): the validator of `text` raises
   when the text is longer than MAX_TEXT_LENGTH *)
Construct(t, wa) ==
    IF Len(t) > MAX_TEXT_LENGTH
    THEN [exc |-> Exc("ValidationError", "Text exceeds maximum length", 0), value |-> NoResult]
    ELSE [exc |-> NoExc, value |-> NakdanResponse(t, None, wa)]

(* a normalization that keeps its entry list between invocations: the entries
   of the invocation before are still in it *)
NormalizedCarryOver(o, t, items) ==
    LET kept == IF runs = <<>> THEN <<>> ELSE runs[Len(runs)].result.word_analysis
    IN Construct(AnalyzeText(items), kept \o AnalyzeWordAnalysis(items))

(* a normalization in which every operation keeps the per-word entries *)
NormalizedWithEntries(o, t, items) ==
    Construct(NikudText(t, items), AnalyzeWordAnalysis(items))

(* the part of each operation after _call_nakdan_api has returned *)
Normalized(o, t, items) ==
    CASE o = "analyze_text" -> Construct(AnalyzeText(items), AnalyzeWordAnalysis(items))
      [] o = "get_lemmas" ->
            IF JoinRaises(LemmatizedWords(items))
            THEN [exc |-> Exc("TypeError", "sequence item: expected str instance", 0),
                  value |-> NoResult]
            ELSE Construct(LemmaText(items), LemmaWordAnalysis(items))
      [] o = "get_nikud" -> Construct(NikudText(t, items), <<>>)

(* an error handler that hands back text and an entry along with the error *)
_handle_api_error_partial(e) ==
    NakdanResponse(W1, ErrorStr("Processing error: ", StrOf(e)), <<EmptyAnalysis>>)

(* _handle_api_error: the error string by the class of the exception *)
_handle_api_error(e) ==
    IF IsNakdanAPIError(e) THEN NakdanResponse(<<>>, ErrorStr("", StrOf(e)), <<>>)
    ELSE IF IsHTTPError(e)
        THEN NakdanResponse(<<>>, ErrorStr("Connection error: ", StrOf(e)), <<>>)
    ELSE IF IsKeyError(e)
        THEN NakdanResponse(<<>>, ErrorStr("Invalid API response format: ", StrOf(e)), <<>>)
    ELSE NakdanResponse(<<>>, ErrorStr("Processing error: ", StrOf(e)), <<>>)

(* in the HTTPError branch e.response is read: only HTTPStatusError has it, so
   for any other HTTPError the handler itself raises AttributeError *)
HandlerRaises(e) == ~IsNakdanAPIError(e) /\ IsHTTPError(e) /\ e.type # "HTTPStatusError"

----------------------------------------------------------------------------
(* One invocation of analyze_text / get_lemmas / get_nikud *)

(* a context manager that does not close what it opened *)
LeaveOpen(c) == c

(* leaving `with httpx.Client(...)` / `async with websockets.connect(...)`, by
   return or by exception: __exit__ / __aexit__ close the connection *)
Close(c) == "closed"

(* translate has neither returned nor had a failed attempt *)
NoOutcome == [returned |-> FALSE, value |-> <<>>, exc |-> NoExc]

(* a translate call by its locals: position, attempt number, connections, the
   list of the read loop, outcome *)
Call(p, n, cs, chunks, o) ==
    [tpc |-> p, tattempt |-> n, conns |-> cs, chunks |-> chunks, tout |-> o]

(* no second call is running *)
NoOtherCall == other = Call("idle", 0, <<>>, <<>>, NoOutcome)

(* no translate call is running *)
TranslateIdle ==
    /\ NoOtherCall
    /\ tpc = "idle"
    /\ tattempt = 0
    /\ conns = <<>>
    /\ translated_chunks = <<>>
    /\ clock = 0
    /\ tout = NoOutcome

(* no TranslationView is shown: direction and genre are arguments of translate,
   genre at its default; no interaction is being handled *)
ViewIdle ==
    /\ vpc = "none"
    /\ direction = "he-en"
    /\ genre = "modern"
    /\ acked = FALSE

(* the process has made no invocation before this one *)
FirstRun == runs = <<>>

(* the BotReloader of run.py: self.process (0 for None), restart_lock, the
   events in event_queue, the bot processes spawned, those still running and
   those that were killed, the position of the task __init__ creates and of
   the process_events task, and the process each task is waiting for *)
Reloader(start, events) ==
    [process |-> 0, lock |-> FALSE, queue |-> 0, modified |-> 0, spawned |-> 0, alive |-> {},
     killed |-> {},
     start |-> start, events |-> events, target |-> [start |-> 0, events |-> 0]]

(* the bot is not run under the reload supervisor *)
ReloaderIdle == reloader = Reloader("none", "none")

(* the invocation was not made by a chat command *)
CommandIdle ==
    /\ command = "none"
    /\ cpc = "idle"
    /\ messages = <<>>
    /\ ViewIdle

(* the arguments of the invoked function, nothing done yet *)
NakdanArgs ==
    /\ text \in Texts
    /\ max_length \in MaxLengths
    /\ attempt = 0
    /\ requests = <<>>
    /\ exc = NoExc
    /\ onlyTransient = TRUE
    /\ data = NoData
    /\ result = NoResult
    /\ clients = <<>>

Init ==
    /\ op \in Ops
    /\ NakdanArgs
    /\ pc = "validate"
    /\ TranslateIdle
    /\ CommandIdle
    /\ FirstRun
    /\ ReloaderIdle

(* validation whose error response is stored but not returned: the call goes on *)
ValidateWithoutReturn ==
    /\ pc = "validate"
    /\ LET error_response == _check_text_requirements(text, max_length) IN
       /\ result' = error_response
       /\ pc' = "call"
    /\ UNCHANGED <<op, text, max_length, attempt, requests, exc, onlyTransient, data, clients>>
    /\ UNCHANGED <<translateVars, commandVars, viewVars, runs, other, reloader>>

(* if error_response := _check_text_requirements(text, max_length): return it *)
Validate ==
    /\ pc = "validate"
    /\ LET error_response == _check_text_requirements(text, max_length) IN
       IF error_response.set
       THEN /\ result' = error_response
            /\ pc' = "done"
       ELSE /\ pc' = "call"
            /\ UNCHANGED result
    /\ UNCHANGED <<op, text, max_length, attempt, requests, exc, onlyTransient, data, clients>>
    /\ UNCHANGED <<translateVars, commandVars, viewVars, runs, other, reloader>>

(* one attempt of the retried _call_nakdan_api: the httpx.Client opened by the
   `with` statement, the POST, what the service answers, the client closed on
   leaving the block, and tenacity's decision on the outcome *)
Attempt ==
    /\ pc = "call"
    /\ \E resp \in Responses :
         LET out == CallOnce(resp)
             n == attempt + 1
         IN /\ attempt' = n
            /\ requests' = Append(requests, Payload(text, TaskOf(op)))
            /\ IF out.exc = NoExc
               THEN /\ data' = out.value
                    /\ exc' = NoExc
                    /\ pc' = "normalize"
                    /\ UNCHANGED onlyTransient
               ELSE /\ onlyTransient' = (onlyTransient /\ IsTransient(out.exc))
                    /\ UNCHANGED data
                    /\ IF ~ShouldRetry(out.exc)
                       THEN exc' = out.exc /\ pc' = "except"
                       ELSE IF StopAfterAttempt(n)
                       THEN exc' = RetryError(out.exc) /\ pc' = "except"
                       ELSE exc' = out.exc /\ pc' = "wait"
    /\ clients' = Append(clients, Close("open"))
    /\ UNCHANGED <<op, text, max_length, result>>
    /\ UNCHANGED <<translateVars, commandVars, viewVars, runs, other, reloader>>

(* tenacity sleeps wait_exponential(...) and starts the next attempt *)
Backoff ==
    /\ pc = "wait"
    /\ pc' = "call"
    /\ UNCHANGED <<op, text, max_length, attempt, requests, exc, onlyTransient, data, result, clients>>
    /\ UNCHANGED <<translateVars, commandVars, viewVars, runs, other, reloader>>

(* the code after `data = _call_nakdan_api(...)`, up to the return *)
Normalize ==
    /\ pc = "normalize"
    /\ LET out == Normalized(op, text, data.items) IN
       IF out.exc = NoExc
       THEN /\ result' = out.value
            /\ pc' = "done"
            /\ UNCHANGED exc
       ELSE /\ exc' = out.exc
            /\ pc' = "except"
            /\ UNCHANGED result
    /\ UNCHANGED <<op, text, max_length, attempt, requests, onlyTransient, data, clients>>
    /\ UNCHANGED <<translateVars, commandVars, viewVars, runs, other, reloader>>

(* except Exception as e: return _handle_api_error(e, ...) *)
Except ==
    /\ pc = "except"
    /\ IF HandlerRaises(exc)
       THEN /\ pc' = "raised"
            /\ UNCHANGED result
       ELSE /\ result' = _handle_api_error(exc)
            /\ pc' = "done"
    /\ UNCHANGED <<op, text, max_length, attempt, requests, exc, onlyTransient, data, clients>>
    /\ UNCHANGED <<translateVars, commandVars, viewVars, runs, other, reloader>>

Next == Validate \/ Attempt \/ Backoff \/ Normalize \/ Except

Spec == Init /\ [][Next]_vars

----------------------------------------------------------------------------
(* analyze_text on token records that carry BGU blocks *)

MaxRecords == 3

(* a BGU block: the headers of its first line and the values of its second *)
BGUColumns ==
    <<BGUHeader.lemma, BGUHeader.pos, BGUHeader.gender, BGUHeader.number,
      BGUHeader.person, BGUHeader.tense, BGUHeader.binyan, BGUHeader.status>>
FullBlock ==
    [headers |-> BGUColumns,
     values |-> <<W1, <<78>>, <<77>>, <<83>>, <<51>>, <<80>>, <<81>>, <<65>>>>]
SparseBlock ==
    [headers |-> BGUColumns,
     values |-> <<W1, <<86>>, <<>>, <<>>, <<>>, <<>>, <<>>, <<>>>>]
ShortBlock ==
    [headers |-> <<BGUHeader.pos, BGUHeader.lemma>>, values |-> <<<<78>>, W1>>]
Blocks == {FullBlock, SparseBlock, ShortBlock}

(* the text the service sends for a block, here with a trailing newline *)
BGUText(b) == Join(b.headers, <<9>>) \o <<10>> \o Join(b.values, <<9>>) \o <<10>>

(* a block followed by a third line: a second line of values *)
ThreeLines == BGUText(FullBlock) \o Join(SparseBlock.values, <<9>>)

(* BGU values: well-formed blocks, a header line without values, three lines,
   not a string *)
BGUValues ==
    {BGUStr(BGUText(b)) : b \in Blocks}
        \cup {BGUStr(Join(BGUColumns, <<9>>)), BGUStr(ThreeLines), BGUOther}

(* a block with a column 'X' that no field is read from and the three suffix
   columns, and a block whose value line is shorter than its header line *)
SuffixBlock ==
    [headers |-> <<BGUHeader.lemma, <<88>>, BGUSuffixHeader.suf_gender,
                   BGUSuffixHeader.suf_person, BGUSuffixHeader.suf_number, BGUHeader.pos>>,
     values |-> <<W1, <<90>>, <<70>>, <<50>>, <<80>>, <<78>>>>]
FewValuesBlock ==
    [headers |-> <<BGUHeader.lemma, BGUHeader.pos, BGUHeader.gender>>, values |-> <<W1>>]
MoreBlocks == {SuffixBlock, FewValuesBlock}

(* a token of prefix, stem and suffix: '\u05d0|\u05d0|\u05d0' *)
WordWithSuffix == <<1488, SEPARATOR, 1488, SEPARATOR, 1488>>

Records ==
    {DictItem(TRUE, TRUE, W1, <<OptStr(V1)>>)}
        \cup {WithBGU(DictItem(TRUE, TRUE, W1, <<OptStr(V1)>>), v) : v \in BGUValues}
        \cup {WithBGU(DictItem(TRUE, TRUE, W1, <<OptStr(V1)>>), BGUStr(BGUText(b))) : b \in MoreBlocks}
        \cup {WithBGU(DictItem(TRUE, TRUE, WordWithSuffix, <<OptStr(V1)>>), BGUStr(BGUText(SuffixBlock)))}

RecordLists == UNION {[1..n -> Records] : n \in 1..MaxRecords}

(* analyze_text('\u05d0') at the point where _call_nakdan_api has returned a list
   of token records on its first attempt *)
AnalyzeInit ==
    /\ op = "analyze_text"
    /\ text = W1
    /\ max_length = MAX_TEXT_LENGTH
    /\ pc = "normalize"
    /\ attempt = 1
    /\ requests = <<Payload(W1, TaskOf("analyze_text"))>>
    /\ exc = NoExc
    /\ onlyTransient = TRUE
    /\ data \in {Returned(l) : l \in RecordLists}
    /\ result = NoResult
    /\ clients = <<Close("open")>>
    /\ TranslateIdle
    /\ CommandIdle
    /\ FirstRun
    /\ ReloaderIdle

AnalyzeNext == Normalize

SpecAnalyze == AnalyzeInit /\ [][AnalyzeNext]_vars

----------------------------------------------------------------------------
(* Properties *)

(* the ErrorInfo kind an error string stands for *)
KindOf(e) ==
    CASE e.isNone -> "none"
      [] e.prefix = "Text cannot be empty" -> "EmptyInput"
      [] e.prefix = "Text exceeds maximum length of 500 characters" -> "TooLong"
      [] e.prefix = "Text must contain Hebrew characters" -> "WrongScript"
      [] e.prefix = "Connection error: " -> "Connection"
      [] e.prefix = "Invalid API response format: " -> "InvalidResponse"
      [] e.prefix = "" /\ e.detail.msg \in
            {"Invalid response format: expected list",
             "Invalid word data: missing 'word' field",
             "Invalid word data: missing 'options' field",
             "Invalid response item type"} -> "InvalidResponse"
      [] OTHER -> "ProcessingFailure"

(* what the validator answered, once validation is over: the kind of its error,
   or "ok" when the invocation went on to the transport call *)
ValidatorVerdict ==
    IF pc = "done" /\ attempt = 0 THEN KindOf(result.error) ELSE "ok"

Blank(t) == \A i \in 1..Len(t) : t[i] \in {9, 32}
HasHebrew(t) == \E i \in 1..Len(t) : t[i] \in 1424..1535

(* C1: one call of _call_nakdan_api makes at most 3 attempts, one request each;
   once an attempt has returned a payload no further attempt can start, and the
   value handed on is a payload that passed the response validation. *)
C1_RetryBudget ==
    /\ attempt <= 3
    /\ Len(requests) = attempt
    /\ pc \in {"call", "wait"} => attempt < 3 /\ ~data.returned
    /\ data.returned => /\ attempt >= 1
                        /\ ValidateResponse(ListBody(data.items)) = NoExc

(* two transient failures, then a success on attempt 3, returned to the caller *)
C1_Witness ==
    /\ pc = "done"
    /\ attempt = 3
    /\ onlyTransient
    /\ data.returned
    /\ result.set /\ result.error.isNone

(* C2: when all 3 attempts fail with a transient transport failure, the
   operation returns an error of the Connection kind. *)
C2_ExhaustionIsConnection ==
    (pc = "done" /\ attempt = 3 /\ ~data.returned /\ onlyTransient)
        => KindOf(result.error) = "Connection"

(* C3: after an attempt failed with a 4xx status no further attempt is made. *)
C3_NoRetryOn4xx ==
    (exc.type = "HTTPStatusError" /\ exc.status \in 400..499) => pc \notin {"wait", "call"}

(* C4: after an attempt failed on a structurally invalid payload no further
   request is issued. *)
C4_NoRetryOnInvalidPayload ==
    exc.type = "NakdanResponseError" => pc \notin {"wait", "call"}

(* C5: an operation whose call failed on a payload of the wrong shape returns an
   error of the InvalidResponse kind, which is not the Connection kind. *)
C5_InvalidResponseKind ==
    (/\ pc = "done"
     /\ \/ exc.type = "NakdanResponseError"
        \/ exc.type = "RetryError" /\ exc.cause = "NakdanResponseError")
        => KindOf(result.error) = "InvalidResponse"

(* C6: the validator answers EmptyInput exactly for a text that is empty after
   trimming, and otherwise TooLong exactly for a text of more than max_length
   code points. *)
C6_EmptyThenTooLong ==
    pc # "validate" =>
        /\ (ValidatorVerdict = "EmptyInput") <=> Blank(text)
        /\ ~Blank(text) => ((ValidatorVerdict = "TooLong") <=> (Len(text) > max_length))

(* a text one code point over the limit is rejected as too long *)
C6_Witness ==
    /\ pc = "done"
    /\ ~Blank(text)
    /\ Len(text) = max_length + 1
    /\ ValidatorVerdict = "TooLong"

(* C7: for a non-empty text within max_length the validator answers WrongScript
   exactly when no code point is in U+0590..U+05FF and no error otherwise; it
   changes nothing but its own answer. *)
C7_WrongScript ==
    (pc # "validate" /\ ~Blank(text) /\ Len(text) <= max_length) =>
        /\ (ValidatorVerdict = "WrongScript") <=> ~HasHebrew(text)
        /\ HasHebrew(text) => ValidatorVerdict = "ok"
        /\ attempt = 0 => /\ requests = <<>>
                          /\ data = NoData
                          /\ exc = NoExc
                          /\ (pc = "call" => result = NoResult)

(* a text mixing Hebrew with other characters passed the validator *)
C7_Witness ==
    /\ pc = "call"
    /\ attempt = 0
    /\ HasHebrew(text)
    /\ \E i \in 1..Len(text) : text[i] \notin 1424..1535

(* C8: no request is issued before validation has passed, none at all when it
   failed, and normalization starts only on the value the transport call
   returned. *)
C8_Ordering ==
    /\ pc = "validate" => requests = <<>> /\ attempt = 0
    /\ requests # <<>> => ~_check_text_requirements(text, max_length).set
    /\ _check_text_requirements(text, max_length).set =>
            /\ attempt = 0
            /\ pc \in {"validate", "done"}
    /\ pc = "normalize" => data.returned /\ requests # <<>> /\ ~result.set
    /\ (result.set /\ result.error.isNone) => data.returned

(* an invocation that went through validation, one request and normalization *)
C8_Witness ==
    /\ pc = "done"
    /\ Len(requests) = 1
    /\ data.returned
    /\ result.set /\ result.error.isNone

(* C9: every POST body carries the user text unchanged in 'data', with the task
   of the operation. *)
C9_BodyCarriesText ==
    \A i \in 1..Len(requests) :
        /\ requests[i].data = text
        /\ requests[i].task = (IF op = "get_nikud" THEN "nakdan" ELSE "analyze")

(* the text with each word replaced by the next token and every whitespace
   character left where it is *)
RECURSIVE Reassemble(_, _, _)
Reassemble(t, toks, inWord) ==
    IF t = <<>> THEN <<>>
    ELSE IF Head(t) \in {9, 32} THEN <<Head(t)>> \o Reassemble(Tail(t), toks, FALSE)
    ELSE IF inWord THEN Reassemble(Tail(t), toks, TRUE)
    ELSE (IF toks = <<>> THEN <<>> ELSE Head(toks)) \o
            Reassemble(Tail(t), IF toks = <<>> THEN <<>> ELSE Tail(toks), TRUE)

WordCount(t) ==
    Cardinality({i \in 1..Len(t) : t[i] \notin {9, 32} /\ (i = 1 \/ t[i - 1] \in {9, 32})})

(* the processed token an operation takes from a token record *)
ProcessedToken(o, item) ==
    HebrewNormalize(IF o = "get_nikud" THEN NikudForm(item)
                    ELSE _process_word_data(item).vowelized_form)

(* C10: with one token record per word, the display text of the vowelize
   operation (analyze_text for the /vowelize command, get_nikud) is the processed
   tokens with every whitespace run of the input kept in place. *)
C10_WhitespacePreserved ==
    (/\ pc = "done"
     /\ op \in {"analyze_text", "get_nikud"}
     /\ result.set /\ result.error.isNone
     /\ Len(data.items) = WordCount(text)
     /\ \A i \in 1..Len(data.items) :
            data.items[i].kind = "dict" /\ data.items[i].options # <<>>)
        => result.text =
             Reassemble(text, [i \in 1..Len(data.items) |-> ProcessedToken(op, data.items[i])],
                        FALSE)

----------------------------------------------------------------------------
(* Graceful degradation of the analysis *)

(* the value a block holds in the column named h, '' without such a column *)
Lookup(b, h) ==
    IF \E i \in 1..Len(b.headers) : b.headers[i] = h
    THEN b.values[CHOOSE i \in 1..Len(b.headers) : b.headers[i] = h]
    ELSE <<>>

(* the morphological fields of an entry: lemma, pos, gender, number, person,
   tense, binyan, status *)
MorphFields == DOMAIN BGUHeader

WellFormedBGU(item) ==
    item.hasBGU /\ item.BGU.isStr /\ \E b \in Blocks : item.BGU.s = BGUText(b)

(* the response holds only token records, exactly one lacks the BGU block and
   the others carry a well-formed block *)
OneRecordLacksBGU(items) ==
    /\ \A i \in 1..Len(items) : items[i].kind = "dict"
    /\ Cardinality({i \in 1..Len(items) : ~items[i].hasBGU}) = 1
    /\ \A i \in 1..Len(items) : items[i].hasBGU => WellFormedBGU(items[i])

(* C11: when analyze_text has returned for a response of N token records of
   which exactly one lacks the BGU block, no exception was raised, the result
   has no error and exactly N word_analysis entries in response order, the
   entry of the record without BGU has all morphological fields empty and every
   other entry has the values of the columns of its own block. *)
C11_GracefulDegradation ==
    (pc = "done" /\ op = "analyze_text" /\ data.returned /\ OneRecordLacksBGU(data.items)) =>
        /\ exc = NoExc
        /\ result.set /\ result.error = None
        /\ Len(result.word_analysis) = Len(data.items)
        /\ \A i \in 1..Len(data.items) :
             LET entry == result.word_analysis[i]
                 item == data.items[i]
             IN /\ entry.keys = MorphKeys
                /\ entry.val["word"] = item.word
                /\ IF ~item.hasBGU
                   THEN \A k \in MorphFields : entry.val[k] = <<>>
                   ELSE \E b \in Blocks :
                          /\ item.BGU.s = BGUText(b)
                          /\ \A k \in MorphFields : entry.val[k] = Lookup(b, BGUHeader[k])

(* three records, the second without BGU, the others analysed from their blocks *)
C11_Witness ==
    /\ pc = "done" /\ op = "analyze_text" /\ data.returned
    /\ Len(data.items) = MaxRecords
    /\ OneRecordLacksBGU(data.items)
    /\ ~data.items[2].hasBGU
    /\ data.items[1].BGU.s = BGUText(FullBlock)
    /\ result.word_analysis[1].val["lemma"] = W1
    /\ result.word_analysis[2].val["lemma"] = <<>>
    /\ result.word_analysis[3].val["pos"] # <<>>

----------------------------------------------------------------------------
(* What the caller of analyze_text / get_lemmas / get_nikud gets back *)

(* the invocation failed: the validator rejected the text, or the transport
   call or the normalization ended with an exception *)
OperationFailed == ValidatorVerdict # "ok" \/ exc # NoExc

(* C12: analyze_text, get_lemmas and get_nikud never raise to their caller:
   whatever the text and whatever each attempt of the transport call met, the
   invocation ends by returning a NakdanResponse, with error set when the
   operation failed. *)
C12_NeverRaises ==
    /\ pc # "raised"
    /\ pc = "done" =>
         /\ result.set
         /\ OperationFailed => ~result.error.isNone

(* the service was unreachable on all three attempts and the caller still got a
   response, with an error *)
C12_Witness ==
    /\ pc = "done"
    /\ exc.type = "RetryError" /\ exc.cause = "ConnectError"
    /\ attempt = stop_after_attempt
    /\ result.set /\ ~result.error.isNone

(* the display text each operation assembles from the whole response *)
DisplayText(o, t, items) ==
    CASE o = "analyze_text" -> AnalyzeText(items)
      [] o = "get_lemmas" -> LemmaText(items)
      [] o = "get_nikud" -> NikudText(t, items)

(* C13: a returned result is an error result or a success result, never a mix:
   with error set, text is '' and word_analysis is empty; with error not set,
   the transport call returned and text is the display text assembled from the
   whole response. *)
C13_ErrorOrSuccess ==
    pc = "done" =>
        IF ~result.error.isNone
        THEN result.text = <<>> /\ result.word_analysis = <<>>
        ELSE /\ data.returned /\ exc = NoExc
             /\ result.text = DisplayText(op, text, data.items)

(* an error result after the service had been called three times *)
C13_Witness ==
    /\ pc = "done"
    /\ attempt = stop_after_attempt
    /\ ~result.error.isNone
    /\ result.text = <<>> /\ result.word_analysis = <<>>

----------------------------------------------------------------------------
(* DictaTranslateAPI.translate (src/utils/dicta_api.py): what the peer sends *)

MaxFrames == 3     \* frames the peer sends during one call
TimeoutTicks == 2  \* self.timeout, in units of the interval between two frames

(* 'out' values: "H", " w " (padded), " " (blank) *)
OutH == <<72>>
OutW == <<32, 119, 32>>
OutBlank == <<32>>

(* a frame as ws.recv() returns it, by what `response.strip()` and
   json.loads(response) make of it *)
Frame(k) ==
    [kind |-> k, hasError |-> FALSE, type |-> "", stage |-> "", hasOut |-> FALSE,
     out |-> <<>>, elems |-> <<>>]
(* a JSON object with the keys 'error', 'type', 'stage', 'out' it has *)
DictFrame(hasE, ty, st, hasO, o) ==
    [Frame("dict") EXCEPT !.hasError = hasE, !.type = ty, !.stage = st, !.hasOut = hasO,
                          !.out = o]
(* a JSON array of objects *)
ListFrame(es) == [Frame("list") EXCEPT !.elems = es]
(* an object inside a JSON array *)
Chunk(hasE, hasO, o) == [isDict |-> TRUE, hasError |-> hasE, hasOut |-> hasO, out |-> o]

PingFrame == DictFrame(FALSE, "ping", "", FALSE, <<>>)
DoneFrame == DictFrame(FALSE, "", "done", FALSE, <<>>)
ErrorFrame == DictFrame(TRUE, "", "", FALSE, <<>>)
OutFrame(o) == DictFrame(FALSE, "", "", TRUE, o)

Frames ==
    {Frame("blank"),        \* only whitespace
     Frame("unparsable"),   \* not JSON
     Frame("task_error"),   \* not JSON, contains "Error during translation task"
     Frame("other"),        \* JSON, neither an object nor an array
     PingFrame, DoneFrame, ErrorFrame,
     OutFrame(OutH), OutFrame(OutW), OutFrame(OutBlank),
     DictFrame(FALSE, "", "done", TRUE, OutH),
     ListFrame(<<Chunk(FALSE, TRUE, OutH), Chunk(FALSE, TRUE, OutW)>>),
     ListFrame(<<Chunk(FALSE, TRUE, OutH), Chunk(TRUE, FALSE, <<>>)>>)}

(* the frames a call made by the Translate button, or one of two concurrent
   calls, is answered with: one of each outcome of the read loop (a fragment,
   the end, an error) *)
ViewFrames == {OutFrame(OutH), DoneFrame, ErrorFrame}

(* the frames ws.recv() can return *)
ServiceFrames == IF vpc = "none" /\ other.tpc = "idle" THEN Frames ELSE ViewFrames

(* how websockets.connect can end: connected, a handshake failure
   (a WebSocketException) or a socket error (an OSError) *)
ConnectOutcomes == {"connected", "InvalidHandshake", "OSError"}

(* the JSON request sent once per connection: `style` repeats the genre *)
RequestFrame(t) ==
    [text |-> t, direction |-> direction, genre |-> genre, style |-> genre,
     temperature |-> 0]
PongFrame == [type |-> "pong"]

(* a ping handling that sends nothing *)
SkipPong(sent) == sent

(* await ws.send(json.dumps({"type": "pong"})): the frames sent afterwards *)
SendPong(sent) == Append(sent, PongFrame)

----------------------------------------------------------------------------
(* DictaTranslateAPI.translate: one frame of the read loop *)

(* an append that keeps the 'out' value as received *)
AppendRaw(chunks, o) == Append(chunks, o)

(* translated_chunks.append(out.strip()) when the stripped text is not empty *)
AppendChunk(chunks, o) == IF Strip(o) # <<>> THEN Append(chunks, Strip(o)) ELSE chunks

(* `for chunk in data`: [chunks, exc] after the elements from index i on *)
RECURSIVE HandleList(_, _, _)
HandleList(elems, i, chunks) ==
    IF i > Len(elems) THEN [chunks |-> chunks, exc |-> NoExc]
    ELSE IF ~elems[i].isDict THEN HandleList(elems, i + 1, chunks)
    ELSE IF elems[i].hasError
        THEN [chunks |-> chunks, exc |-> Exc("ValueError", "API Error", 0)]
    ELSE IF elems[i].hasOut THEN HandleList(elems, i + 1, AppendChunk(chunks, elems[i].out))
    ELSE HandleList(elems, i + 1, chunks)

(* the body of the while loop for one received frame:
   [chunks, pong sent, translation_complete, exception raised] *)
Step(c, p, d, e) == [chunks |-> c, pong |-> p, complete |-> d, exc |-> e]
HandleFrame(f, chunks) ==
    CASE f.kind = "blank" -> Step(chunks, FALSE, FALSE, NoExc)
      [] f.kind = "unparsable" -> Step(chunks, FALSE, FALSE, NoExc)
      [] f.kind = "task_error" -> Step(chunks, FALSE, FALSE, Exc("ValueError", "API Error", 0))
      [] f.kind = "other" -> Step(chunks, FALSE, FALSE, NoExc)
      [] f.kind = "dict" ->
            IF f.hasError THEN Step(chunks, FALSE, FALSE, Exc("ValueError", "API Error", 0))
            ELSE IF f.type = "ping" THEN Step(chunks, TRUE, FALSE, NoExc)
            ELSE IF f.stage = "done" THEN Step(chunks, FALSE, TRUE, NoExc)
            ELSE IF f.hasOut THEN Step(AppendChunk(chunks, f.out), FALSE, FALSE, NoExc)
            ELSE Step(chunks, FALSE, FALSE, NoExc)
      [] f.kind = "list" ->
            LET r == HandleList(f.elems, 1, chunks) IN Step(r.chunks, FALSE, FALSE, r.exc)

(* the two except clauses of translate: a WebSocketException is re-raised, any
   other exception becomes ValueError("Translation failed: ...") *)
IsWebSocketException(e) == e.type \in {"ConnectionClosed", "InvalidHandshake"}
Reraise(e) ==
    IF IsWebSocketException(e) THEN e ELSE Exc("ValueError", "Translation failed: ", 0)

----------------------------------------------------------------------------
(* DictaTranslateAPI.translate: one call, under @retry *)

(* no Nakdan invocation is running; `text` is the argument of translate *)
NakdanIdle ==
    /\ op = "none"
    /\ text = W1
    /\ max_length = MAX_TEXT_LENGTH
    /\ pc = "idle"
    /\ attempt = 0
    /\ requests = <<>>
    /\ exc = NoExc
    /\ onlyTransient = TRUE
    /\ data = NoData
    /\ result = NoResult
    /\ clients = <<>>

TranslateInit ==
    /\ NoOtherCall
    /\ tpc = "call"
    /\ tattempt = 0
    /\ conns = <<>>
    /\ translated_chunks = <<>>
    /\ clock = 0
    /\ tout = NoOutcome
    /\ NakdanIdle
    /\ CommandIdle
    /\ FirstRun
    /\ ReloaderIdle

Raised(e) == [returned |-> FALSE, value |-> <<>>, exc |-> e]
ReturnedStr(v) == [returned |-> TRUE, value |-> v, exc |-> NoExc]

(* the connection `async with websockets.connect(...) as ws` has just opened,
   after ws.send(json.dumps(request)) *)
Connection(t) == [state |-> "open", sent |-> <<RequestFrame(t)>>, received |-> <<>>]
(* websockets.connect raised: the attempt has no connection *)
NoConnection == [state |-> "failed", sent |-> <<>>, received |-> <<>>]

(* tenacity after attempt n ended with exception e: stop_after_attempt(3) and
   no `retry=`, so every exception is retried until RetryError *)
AfterFailure(e, n) ==
    IF ~ShouldRetry(e) THEN [tpc |-> "raised", tout |-> Raised(e)]
    ELSE IF StopAfterAttempt(n) THEN [tpc |-> "raised", tout |-> Raised(RetryError(e))]
    ELSE [tpc |-> "wait", tout |-> Raised(e)]
AttemptFails(e, n) == tpc' = AfterFailure(e, n).tpc /\ tout' = AfterFailure(e, n).tout

(* tenacity starts an attempt: websockets.connect and the request frame *)
Connect ==
    /\ tpc = "call"
    /\ tattempt' = tattempt + 1
    /\ \E o \in ConnectOutcomes :
         IF o = "connected"
         THEN /\ conns' = Append(conns, Connection(text))
              /\ tpc' = "recv"
              /\ UNCHANGED tout
         ELSE /\ conns' = Append(conns, NoConnection)
              /\ AttemptFails(Reraise(Exc(o, "", 0)), tattempt + 1)
    /\ translated_chunks' = <<>>
    /\ UNCHANGED <<clock, nakdanVars, commandVars, viewVars, runs, other, reloader>>

(* one turn of `while not translation_complete`: ws.recv() returns a frame, which
   is handled; when the loop or the function ends here, so does the attempt.
   No timer runs: ws.recv() is awaited bare and self.timeout is never read, so
   asyncio.TimeoutError cannot arise and time only passes *)
Recv ==
    /\ tpc = "recv"
    /\ clock < MaxFrames
    /\ clock' = clock + 1
    /\ \E f \in ServiceFrames :
         LET cur == Len(conns)
             h == HandleFrame(f, translated_chunks)
             logged == [conns EXCEPT ![cur].received = Append(@, f)]
             closed == [logged EXCEPT ![cur].state = Close(@)]
         IN IF h.exc # NoExc
            THEN /\ conns' = closed
                 /\ translated_chunks' = <<>>
                 /\ AttemptFails(Reraise(h.exc), tattempt)
            ELSE IF h.complete
            THEN /\ conns' = closed
                 /\ translated_chunks' = <<>>
                 /\ IF h.chunks = <<>>
                    THEN AttemptFails(Reraise(Exc("ValueError", "No translation received", 0)),
                                      tattempt)
                    ELSE tpc' = "returned" /\ tout' = ReturnedStr(Join(h.chunks, <<32>>))
            ELSE /\ conns' = [logged EXCEPT ![cur].sent =
                                 IF h.pong THEN SendPong(@) ELSE @]
                 /\ translated_chunks' = h.chunks
                 /\ UNCHANGED <<tpc, tout>>
    /\ UNCHANGED <<tattempt, nakdanVars, commandVars, viewVars, runs, other, reloader>>

(* ws.recv() raises ConnectionClosed: the peer or the network ended the connection *)
ConnectionLost ==
    /\ tpc = "recv"
    /\ conns' = [conns EXCEPT ![Len(conns)].state = Close(@)]
    /\ translated_chunks' = <<>>
    /\ AttemptFails(Reraise(Exc("ConnectionClosed", "", 0)), tattempt)
    /\ UNCHANGED <<tattempt, clock, nakdanVars, commandVars, viewVars, runs, other, reloader>>

(* tenacity sleeps wait_exponential(...) and starts the next attempt *)
TranslateBackoff ==
    /\ tpc = "wait"
    /\ tpc' = "call"
    /\ UNCHANGED <<tattempt, conns, translated_chunks, clock, tout, nakdanVars, commandVars, viewVars, runs, other, reloader>>

TranslateNext == Connect \/ Recv \/ ConnectionLost \/ TranslateBackoff

SpecTranslate == TranslateInit /\ [][TranslateNext]_vars

----------------------------------------------------------------------------
(* The translation result *)

(* the frames received during the latest attempt *)
Session == IF conns = <<>> THEN <<>> ELSE conns[Len(conns)].received

IsPing(f) == f.kind = "dict" /\ ~f.hasError /\ f.type = "ping"
IsDone(f) == f.kind = "dict" /\ ~f.hasError /\ f.type # "ping" /\ f.stage = "done"

(* the latest session ended with the 'done' frame *)
EndedByDone == Session # <<>> /\ IsDone(Session[Len(Session)])

(* the 'out' values of the object elements of an array *)
ElemOuts(es) ==
    LET with == SelectSeq(es, LAMBDA c : c.isDict /\ c.hasOut)
    IN [i \in 1..Len(with) |-> with[i].out]

(* every 'out' value a frame carries *)
OutValues(f) ==
    CASE f.kind = "dict" /\ f.hasOut -> <<f.out>>
      [] f.kind = "list" -> ElemOuts(f.elems)
      [] OTHER -> <<>>

(* the 'out' values of a session, in arrival order *)
AllOutValues(log) == Flatten([i \in 1..Len(log) |-> OutValues(log[i])])

(* the text fragments of a session: the 'out' values of the frames that are read
   as fragment frames (a ping or 'done' frame is not), stripped, without the
   blank ones *)
Fragments(log) ==
    LET outs == AllOutValues(SelectSeq(log, LAMBDA f : ~IsPing(f) /\ ~IsDone(f)))
        kept == SelectSeq(outs, LAMBDA o : Strip(o) # <<>>)
    IN [i \in 1..Len(kept) |-> Strip(kept[i])]

(* C14 as stated: once the 'done' frame has arrived, the call returns the 'out'
   values of the dict frames and of the dict elements of the list frames, in
   arrival order, joined with one space; with no 'out' value received it fails. *)
C14_JoinOfOutValues ==
    EndedByDone =>
        IF AllOutValues(Session) = <<>>
        THEN ~tout.returned
        ELSE tout = ReturnedStr(Join(AllOutValues(Session), <<32>>))

(* C14, amended: once the 'done' frame has arrived, the attempt returns the
   text fragments (the stripped, non-blank 'out' values of the frames that are
   neither ping nor 'done' frames) in arrival order, joined with one space;
   with no fragment the attempt fails with a ValueError. *)
C14_JoinOfFragments ==
    EndedByDone =>
        IF Fragments(Session) = <<>>
        THEN /\ ~tout.returned
             /\ "ValueError" \in {tout.exc.type, tout.exc.cause}
        ELSE /\ tpc = "returned"
             /\ tout = ReturnedStr(Join(Fragments(Session), <<32>>))

(* {out: "H"}, {out: " w "}, {stage: done} gives "H w" *)
C14_Witness ==
    /\ tpc = "returned"
    /\ Session = <<OutFrame(OutH), OutFrame(OutW), DoneFrame>>
    /\ tout.value = <<72, 32, 119>>

----------------------------------------------------------------------------
(* Keep-alive *)

(* this step reads a ping frame on the current connection *)
ReadsPing ==
    /\ tpc = "recv"
    /\ Len(conns') = Len(conns)
    /\ Len(Session') = Len(Session) + 1
    /\ IsPing(Session'[Len(Session')])

(* C15: the step of the read loop that receives a 'ping' frame sends exactly
   one 'pong' on the same connection and nothing else, before any further frame
   is read; it adds no fragment and leaves the session open and reading. *)
C15_PingAnswered ==
    [][ReadsPing =>
          /\ conns'[Len(conns)].sent = Append(conns[Len(conns)].sent, PongFrame)
          /\ conns'[Len(conns)].state = "open"
          /\ translated_chunks' = translated_chunks
          /\ tpc' = "recv"
          /\ tout' = tout]_vars

(* a ping between request and first fragment was answered and the session went
   on to its 'done' frame *)
C15_Witness ==
    /\ tpc = "returned"
    /\ Session = <<PingFrame, OutFrame(OutH), DoneFrame>>
    /\ conns[Len(conns)].sent = <<RequestFrame(text), PongFrame>>
    /\ tout.value = OutH

----------------------------------------------------------------------------
(* Error frames, the timeout and the release of connections *)

(* the frame carries 'error', as a dict frame or in a dict element of a list *)
CarriesError(f) ==
    \/ f.kind = "dict" /\ f.hasError
    \/ f.kind = "list" /\ \E i \in 1..Len(f.elems) : f.elems[i].isDict /\ f.elems[i].hasError

GotErrorFrame(c) == \E k \in 1..Len(c.received) : CarriesError(c.received[k])

(* C16: an error frame is terminal for the call: once a connection of the call
   has received a frame carrying 'error', that connection is closed, the call
   does not return a translation, and no later connection is opened and no
   further request frame is sent for the call. *)
C16_ErrorFrameTerminal ==
    \A i \in 1..Len(conns) :
        GotErrorFrame(conns[i]) =>
            /\ conns[i].state = "closed"
            /\ ~tout.returned
            /\ \A j \in (i + 1)..Len(conns) : conns[j].sent = <<>>

(* C17: the call ends within its timeout, measured across the whole exchange:
   once more time than the timeout has passed since the call began, the read
   loop is no longer waiting for frames. *)
C17_EndsWithinTimeout == clock > TimeoutTicks => tpc # "recv"

(* the request frames sent on a connection *)
RequestsOn(c) == SelectSeq(c.sent, LAMBDA m : m = RequestFrame(text))

(* C18: every connection is released on every exit path and none is reused:
   each attempt of _call_nakdan_api has its own httpx.Client, closed when the
   attempt is over; each attempt of translate has its own WebSocket, open only
   while that attempt is in its read loop and closed once it has returned or
   raised, and carrying one request frame at most. *)
C18_ConnectionsReleased ==
    /\ Len(clients) = attempt /\ Len(requests) = attempt
    /\ \A i \in 1..Len(clients) : clients[i] = "closed"
    /\ Len(conns) = tattempt
    /\ \A i \in 1..Len(conns) :
         /\ conns[i].state \in {"open", "closed", "failed"}
         /\ conns[i].state = "open" => i = Len(conns) /\ tpc = "recv"
         /\ Len(RequestsOn(conns[i])) <= 1
    /\ tpc # "recv" => \A i \in 1..Len(conns) : conns[i].state # "open"

(* three attempts that left their connection by three paths: an error frame,
   a 'done' frame without fragments, a connection lost while reading *)
C18_Witness ==
    /\ tpc = "raised"
    /\ Len(conns) = stop_after_attempt
    /\ conns[1].received = <<ErrorFrame>>
    /\ conns[2].received = <<DoneFrame>>
    /\ conns[3].received = <<>> /\ conns[3].sent # <<>>
    /\ \A i \in 1..Len(conns) : conns[i].state = "closed"

(* either machine, from its entry *)
ReleaseInit == Init \/ TranslateInit
ReleaseNext == Next \/ TranslateNext
SpecRelease == ReleaseInit /\ [][ReleaseNext]_vars

----------------------------------------------------------------------------
(* The chat commands (src/alephbot.py) and their error copy
   (src/utils/discord_helpers.py) *)

(* the words, split at spaces, of the fixed texts that occur in error strings;
   any other text is one opaque word *)
Words(s) ==
    CASE s = "" -> <<>>
      [] s = "Text cannot be empty" -> <<"Text", "cannot", "be", "empty">>
      [] s = "Text exceeds maximum length of 500 characters" ->
            <<"Text", "exceeds", "maximum", "length", "of", "500", "characters">>
      [] s = "Text must contain Hebrew characters" ->
            <<"Text", "must", "contain", "Hebrew", "characters">>
      [] s = "Text exceeds maximum length" -> <<"Text", "exceeds", "maximum", "length">>
      [] OTHER -> <<s>>

(* result.error as the words of the string *)
ErrorWords(e) ==
    IF e.isNone THEN <<>> ELSE Words(e.prefix) \o Words(e.detail.msg) \o Words(e.detail.cause)

(* `needle in error` for a needle made of whole words *)
Contains(hay, needle) ==
    \E i \in 1..(Len(hay) - Len(needle) + 1) : SubSeq(hay, i, i + Len(needle) - 1) = needle

(* a rendered chat message: plain text (the copy, then the error text it quotes)
   or an embed (its title, the result text and the number of its fields) *)
TextMessage(c, quoted) ==
    [kind |-> "text", copy |-> c, quoted |-> quoted, text |-> <<>>, fields |-> 0]
EmbedMessage(title, t) ==
    [kind |-> "embed", copy |-> title, quoted |-> <<>>, text |-> t, fields |-> 0]

(* an error formatter with one copy for every error *)
format_generic_message(error) ==
    TextMessage("Sorry, there was an issue processing your text: ", ErrorWords(error))

(* format_error_message: the copy is chosen by substring tests on the error *)
format_error_message(error) ==
    LET w == ErrorWords(error) IN
    IF Contains(w, <<"maximum", "length">>)
    THEN TextMessage("Text is too long! Please keep it under 500 characters.", <<>>)
    ELSE IF Contains(w, <<"must", "contain", "Hebrew">>)
    THEN TextMessage("Please provide Hebrew text. Example: ...", <<>>)
    ELSE IF Contains(w, <<"empty">>)
    THEN TextMessage("Please provide some text. Example: ...", <<>>)
    ELSE TextMessage("Sorry, there was an issue processing your text: ", w)

(* `if result.error:` is true for a string that is not empty *)
ErrorIsTruthy(e) == ~e.isNone /\ ErrorWords(e) # <<>>

Commands == {"vowelize", "analyze", "lemmatize"}

(* the nakdan_api function each command calls *)
OpOf(c) == IF c = "lemmatize" THEN "get_lemmas" ELSE "analyze_text"

(* the members of EmbedTitles (src/utils/hebrew_constants.py) *)
EmbedTitles == {"VOWELIZE", "MORPHOLOGY", "LEMMATIZE"}

(* the title each command gives its embed: a literal in vowelize, a member of
   EmbedTitles looked up by name in analyze and lemmatize *)
TitleOf(c) ==
    CASE c = "vowelize" -> [literal |-> TRUE, name |-> "Vowelized Text"]
      [] c = "analyze" -> [literal |-> FALSE, name |-> "MORPHOLOGICAL_ANALYSIS"]
      [] c = "lemmatize" -> [literal |-> FALSE, name |-> "WORD_ROOTS"]

(* the embed fields of analyze: one add_field for every entry that is not an
   empty dict, with no upper limit *)
AnalyzeFields(wa) == Len(SelectSeq(wa, LAMBDA a : a.keys # {}))

(* the embed fields of lemmatize: one add_field for every entry with a word and
   a lemma, with no upper limit *)
LemmatizeFields(wa) ==
    Len(SelectSeq(wa, LAMBDA a : a.keys # {} /\ a.val["word"] # <<>> /\ a.val["lemma"] # <<>>))

(* vowelize adds no field: the result goes into the description *)
FieldsOf(c, wa) ==
    CASE c = "analyze" -> AnalyzeFields(wa)
      [] c = "lemmatize" -> LemmatizeFields(wa)
      [] OTHER -> 0

(* building the embed raises AttributeError when the title names no member *)
EmbedRaises(c) == ~TitleOf(c).literal /\ TitleOf(c).name \notin EmbedTitles

(* a command was invoked; max_length stands for the MAX_TEXT_LENGTH the
   commands pass, scaled to the texts of the model *)
CommandInit ==
    /\ command \in Commands
    /\ cpc = "invoked"
    /\ messages = <<>>
    /\ op = OpOf(command)
    /\ NakdanArgs
    /\ pc = "idle"
    /\ TranslateIdle
    /\ ViewIdle
    /\ FirstRun
    /\ ReloaderIdle

(* await interaction.response.defer(), then the call of the nakdan_api function *)
Defer ==
    /\ command \in Commands
    /\ cpc = "invoked"
    /\ cpc' = "deferred"
    /\ acked' = TRUE
    /\ pc' = "validate"
    /\ UNCHANGED <<op, text, max_length, attempt, requests, exc, onlyTransient, data, result,
                   clients, command, messages, translateVars, vpc, direction, genre, runs, other, reloader>>

(* the rest of the command once the function has returned: the failure message
   through handle_hebrew_command_error, or the embed through followup.send *)
Render ==
    /\ cpc = "deferred"
    /\ pc \in {"done", "raised"}
    /\ IF pc = "raised"
       THEN cpc' = "raised" /\ UNCHANGED messages
       ELSE IF ErrorIsTruthy(result.error)
       THEN /\ messages' = Append(messages, format_error_message(result.error))
            /\ cpc' = "returned"
       ELSE IF EmbedRaises(command)
       THEN cpc' = "raised" /\ UNCHANGED messages
       ELSE /\ messages' = Append(messages,
                   [EmbedMessage(TitleOf(command).name, result.text)
                       EXCEPT !.fields = FieldsOf(command, result.word_analysis)])
            /\ cpc' = "returned"
    /\ UNCHANGED <<nakdanVars, command, translateVars, viewVars, runs, other, reloader>>

(* the exception leaves the command: discord.py wraps it in CommandInvokeError
   and calls the command's own error handler, which calls ctx.send on an
   Interaction (no such attribute) and raises in turn; the tree's handler, were
   it reached, calls interaction.response.send_message after the defer, which
   raises InteractionResponded.  Neither renders a message *)
ErrorHandlers ==
    /\ cpc = "raised"
    /\ cpc' = "failed"
    /\ UNCHANGED <<nakdanVars, command, messages, translateVars, viewVars, runs, other, reloader>>

CommandNext == Defer \/ Next \/ Render \/ ErrorHandlers

SpecCommand == CommandInit /\ [][CommandNext]_vars

----------------------------------------------------------------------------
(* What the user sees *)

(* the command is over: it returned, or its exception went through the error
   handlers *)
CommandOver == cpc \in {"returned", "failed"}

(* C19: an invocation of vowelize, analyze or lemmatize renders exactly one
   chat message: never more than one at any time, and when the command is over
   exactly one, the failure text when the result carries an error and the
   success embed otherwise. *)
C19_ExactlyOneMessage ==
    /\ Len(messages) <= 1
    /\ CommandOver =>
         /\ Len(messages) = 1
         /\ IF ~result.error.isNone
            THEN messages[1].kind = "text"
            ELSE messages[1].kind = "embed" /\ messages[1].text = result.text

(* the three errors the validator returns *)
ValidatorErrors ==
    {ErrorStr(ERROR_MESSAGES.empty_text, NoDetail),
     ErrorStr(ERROR_MESSAGES.text_too_long, NoDetail),
     ErrorStr(ERROR_MESSAGES.non_hebrew, NoDetail)}

(* the copy a rejected text is answered with, by the reason of the rejection *)
CopyFor(t, m) ==
    IF Blank(t) THEN "Please provide some text. Example: ..."
    ELSE IF Len(t) > m THEN "Text is too long! Please keep it under 500 characters."
    ELSE "Please provide Hebrew text. Example: ..."

(* C20: the three validator errors map through format_error_message to three
   pairwise distinct messages, none of them the generic processing-issue
   message and none quoting the error text; and a command whose text the
   validator rejected renders exactly the message of that rejection. *)
C20_OwnCopy ==
    /\ \A a, b \in ValidatorErrors :
         a # b => format_error_message(a) # format_error_message(b)
    /\ \A a \in ValidatorErrors :
         /\ format_error_message(a).copy # format_generic_message(a).copy
         /\ format_error_message(a).quoted = <<>>
    /\ (cpc = "returned" /\ attempt = 0) =>
         messages = <<TextMessage(CopyFor(text, max_length), <<>>)>>

(* a text that is too long was answered with the too-long copy *)
C20_Witness ==
    /\ cpc = "returned" /\ attempt = 0
    /\ ~Blank(text) /\ Len(text) > max_length
    /\ result.error = ErrorStr(ERROR_MESSAGES.text_too_long, NoDetail)
    /\ messages[1].copy = "Text is too long! Please keep it under 500 characters."

----------------------------------------------------------------------------
(* What a failure message discloses *)

(* the call failed after the request was sent: in the transport (every attempt
   raised) or in the normalization of the answer *)
FailedPastValidation == attempt > 0 /\ result.set /\ ~result.error.isNone

(* C21: the message rendered for a failure of the transport or normalization
   step contains no exception text: the command that got such a failure back
   rendered a text message that quotes nothing of result.error, which carries
   str(e) of the exception. *)
C21_NoExceptionText ==
    (cpc = "returned" /\ FailedPastValidation) =>
        /\ Len(messages) = 1
        /\ messages[1].kind = "text"
        /\ messages[1].quoted = <<>>

----------------------------------------------------------------------------
(* The translate command and its TranslationView (src/alephbot.py) *)

(* TRANSLATION_GENRES: the genres DictaTranslateAPI enumerates *)
TRANSLATION_GENRES ==
    {"modern", "modern-formal", "modern-colloquial", "biblical", "technical", "legal"}

(* the options of the view's two select menus *)
DirectionOptions == {"he-en", "en-he"}
GenreOptions == {"modern", "modern-fancy", "rabbinic", "premodern", "biblical", "poetic"}

(* the texts the translate command is invoked with: empty, blank, one Hebrew
   letter, one and two Latin letters *)
ViewTexts == {<<>>, <<32>>, W1, <<97>>, <<97, 97>>}

(* the message that carries the view: its content is the text to translate *)
ViewMessage(t) == [kind |-> "view", copy |-> "", quoted |-> <<>>, text |-> t, fields |-> 0]

(* the result embed of the Translate button, with its three fields: original
   text, translated text, settings *)
ResultEmbed(t) == [kind |-> "embed", copy |-> "Translation Result", quoted |-> <<>>,
                   text |-> t, fields |-> 3]

(* /translate was invoked; max_length stands for MAX_TEXT_LENGTH, scaled to the
   texts of the model.  TranslationView.__init__ sets direction and genre *)
ViewInit ==
    /\ command = "translate"
    /\ cpc = "invoked"
    /\ messages = <<>>
    /\ op = "none"
    /\ NakdanArgs
    /\ text \in ViewTexts
    /\ max_length = 1
    /\ pc = "idle"
    /\ TranslateIdle
    /\ ViewIdle
    /\ FirstRun
    /\ ReloaderIdle

(* translate: await interaction.response.defer() *)
TranslateDefer ==
    /\ command = "translate"
    /\ cpc = "invoked"
    /\ cpc' = "deferred"
    /\ acked' = TRUE
    /\ UNCHANGED <<nakdanVars, translateVars, command, messages, vpc, direction, genre, runs, other, reloader>>

(* translate after the defer: the two validations, then the text is sent with
   a new TranslationView *)
TranslateCommand ==
    /\ command = "translate"
    /\ cpc = "deferred"
    /\ cpc' = "returned"
    /\ IF Strip(text) = <<>>
       THEN /\ messages' = Append(messages, TextMessage("Please provide text to translate.", <<>>))
            /\ UNCHANGED vpc
       ELSE IF Len(text) > max_length
       THEN /\ messages' = Append(messages,
                   TextMessage("Text is too long. Maximum length is 500 characters.", <<>>))
            /\ UNCHANGED vpc
       ELSE /\ messages' = Append(messages, ViewMessage(text))
            /\ vpc' = "shown"
    /\ UNCHANGED <<nakdanVars, translateVars, command, direction, genre, acked, runs, other, reloader>>

(* direction_select: the chosen value is stored and the interaction deferred *)
direction_select ==
    /\ vpc = "shown"
    /\ \E d \in DirectionOptions : direction' = d
    /\ acked' = TRUE
    /\ UNCHANGED <<nakdanVars, translateVars, commandVars, vpc, genre, runs, other, reloader>>

(* genre_select: the chosen value is stored and the interaction deferred *)
genre_select ==
    /\ vpc = "shown"
    /\ \E g \in GenreOptions : genre' = g
    /\ acked' = TRUE
    /\ UNCHANGED <<nakdanVars, translateVars, commandVars, vpc, direction, runs, other, reloader>>

(* translate_button up to the await of translate_client.translate: a new
   interaction; a message without content is answered at once, otherwise the
   call starts with the view's direction and genre.  Nothing is sent to the
   interaction before the call *)
translate_button ==
    /\ vpc = "shown"
    /\ tpc = "idle"
    /\ IF messages[Len(messages)].text = <<>>
       THEN /\ messages' = Append(messages, TextMessage("No text to translate!", <<>>))
            /\ acked' = TRUE
            /\ UNCHANGED <<vpc, tpc>>
       ELSE /\ vpc' = "pressed"
            /\ tpc' = "call"
            /\ acked' = FALSE
            /\ UNCHANGED messages
    /\ UNCHANGED <<nakdanVars, tattempt, conns, translated_chunks, clock, tout, command, cpc,
                   direction, genre, runs, other, reloader>>

(* `"timeout" in str(e).lower()` and `"too many requests" in str(e).lower()`:
   str of a RetryError names the class of the last exception *)
MentionsTimeout(e) == e.cause \in {"TimeoutError", "TimeoutException"}
MentionsRateLimit(e) == FALSE

(* the copy of the except branch of translate_button *)
TranslateErrorCopy(e) ==
    IF MentionsRateLimit(e) THEN "Rate limit exceeded. Please wait a moment before trying again."
    ELSE IF MentionsTimeout(e)
    THEN "Translation timed out. Please try again with shorter text."
    ELSE "An error occurred during translation. Please try again later."

(* translate_button once translate has returned or raised: the result embed, or
   the error copy, through interaction.response.send_message *)
translate_button_respond ==
    /\ vpc = "pressed"
    /\ tpc \in {"returned", "raised"}
    /\ vpc' = "responded"
    /\ acked' = TRUE
    /\ messages' = Append(messages,
          IF tout.returned THEN ResultEmbed(tout.value)
          ELSE TextMessage(TranslateErrorCopy(tout.exc), <<>>))
    /\ UNCHANGED <<nakdanVars, translateVars, command, cpc, direction, genre, runs, other, reloader>>

ViewNext ==
    \/ TranslateDefer
    \/ TranslateCommand
    \/ direction_select
    \/ genre_select
    \/ translate_button
    \/ TranslateNext
    \/ translate_button_respond

SpecView == ViewInit /\ [][ViewNext]_vars

(* a chat command or the translation view, from its entry *)
InteractionInit == CommandInit \/ ViewInit
InteractionNext == CommandNext \/ ViewNext
SpecInteraction == InteractionInit /\ [][InteractionNext]_vars

----------------------------------------------------------------------------
(* Acknowledgement before work *)

(* validation or a network call has started for the interaction in progress *)
WorkStarted ==
    \/ command \in Commands /\ pc # "idle"
    \/ command = "translate" /\ cpc = "returned"
    \/ vpc = "pressed"

(* C22: every interaction that may lead to a network call is acknowledged
   before its validation and before its network call start: whenever the
   Nakdan invocation of vowelize, analyze or lemmatize, the validation of
   translate, or the translation call of the Translate button is under way or
   over, the interaction has been deferred or answered. *)
C22_AcknowledgedFirst == WorkStarted => acked

----------------------------------------------------------------------------
(* The size of a rendered analysis *)

(* analyze or lemmatize is over and its result carries no error *)
AnalysisSucceeded ==
    /\ command \in {"analyze", "lemmatize"}
    /\ CommandOver
    /\ result.set /\ result.error.isNone

RECURSIVE TotalFields(_)
TotalFields(ms) == IF ms = <<>> THEN 0 ELSE Head(ms).fields + TotalFields(Tail(ms))

(* C23: the rendered analysis respects the limit of 25 fields per message: once
   analyze or lemmatize is over with a successful result, that result has been
   rendered as one or more embeds, none holding more than 25 fields, which
   together hold the field of every word of the result. *)
C23_EmbedsWithinLimit ==
    AnalysisSucceeded =>
        /\ messages # <<>>
        /\ \A i \in 1..Len(messages) :
             messages[i].kind = "embed" /\ messages[i].fields <= 25
        /\ TotalFields(messages) = FieldsOf(command, result.word_analysis)

----------------------------------------------------------------------------
(* What get_nikud returns *)

(* get_nikud returned a result without error *)
NikudSucceeded ==
    op = "get_nikud" /\ pc = "done" /\ result.set /\ result.error.isNone

(* C24: for a valid Hebrew word get_nikud returns analysis data along with the
   text: a result without error has a text that is not empty, lemmas, pos_tags
   and word_analysis that are not empty, and a first word_analysis entry with
   the keys 'word', 'lemma' and 'pos'. *)
C24_NikudCarriesAnalysis ==
    NikudSucceeded =>
        /\ result.text # <<>>
        /\ result.lemmas # <<>>
        /\ result.pos_tags # <<>>
        /\ result.word_analysis # <<>>
        /\ {"word", "lemma", "pos"} \subseteq result.word_analysis[1].keys

(* C25: for simple vowelization the per-word sequence is empty: every result
   get_nikud returns without error has an empty word_analysis, whatever the
   service answered. *)
C25_NikudWordAnalysisEmpty == NikudSucceeded => result.word_analysis = <<>>

(* get_nikud returned the vowelized form of a word the service answered with *)
C25_Witness ==
    /\ NikudSucceeded
    /\ attempt >= 1
    /\ data.items # <<>>
    /\ result.text # <<>> /\ result.text # text

----------------------------------------------------------------------------
(* The messages of vowelize *)

(* C26: an invocation of vowelize first sends the message 'Processing your
   text...', later deleted, and then the final response: when the command is
   over at least two messages were sent, the first is the processing message
   and the last is a text with 'Vowelized text:' and 'Word Analysis:'. *)
C26_ProcessingThenResponse ==
    (command = "vowelize" /\ CommandOver) =>
        /\ Len(messages) >= 2
        /\ messages[1] = TextMessage("Processing your text...", <<>>)
        /\ messages[Len(messages)].kind = "text"
        /\ messages[Len(messages)].copy = "Vowelized text: ... Word Analysis: ..."

----------------------------------------------------------------------------
(* Repeated invocations in one process (SpecRepeat) *)

(* the texts and the raw responses of the repeated invocations: a token with a
   string option, one with a list option, one with a BGU block *)
RepeatTexts == {W1, <<1488, 32>>}
RepeatData ==
    {Returned(<<DictItem(TRUE, TRUE, W1, <<OptStr(V1)>>)>>),
     Returned(<<DictItem(TRUE, TRUE, W1, <<OptList(<<ElemStr(V2)>>)>>)>>),
     Returned(<<WithBGU(DictItem(TRUE, TRUE, W1, <<OptStr(V1)>>), BGUStr(BGUText(FullBlock)))>>)}

(* an invocation at the point where _call_nakdan_api has returned *)
RepeatInit ==
    /\ op \in Ops
    /\ text \in RepeatTexts
    /\ max_length = MAX_TEXT_LENGTH
    /\ pc = "normalize"
    /\ attempt = 1
    /\ requests = <<Payload(text, TaskOf(op))>>
    /\ exc = NoExc
    /\ onlyTransient = TRUE
    /\ data \in RepeatData
    /\ result = NoResult
    /\ clients = <<Close("open")>>
    /\ TranslateIdle
    /\ CommandIdle
    /\ FirstRun
    /\ ReloaderIdle

(* what an invocation was given and what it returned *)
Run(o, t, items, r) == [op |-> o, text |-> t, items |-> items, result |-> r]

(* the invocation has returned and the process makes the next one, of any of
   the three functions, again taken where _call_nakdan_api has returned *)
Reinvoke ==
    /\ pc = "done"
    /\ Len(runs) + 1 < MaxRuns
    /\ runs' = Append(runs, Run(op, text, data.items, result))
    /\ op' \in Ops
    /\ text' \in RepeatTexts
    /\ data' \in RepeatData
    /\ requests' = <<Payload(text', TaskOf(op'))>>
    /\ result' = NoResult
    /\ pc' = "normalize"
    /\ UNCHANGED <<max_length, attempt, exc, onlyTransient, clients>>
    /\ UNCHANGED <<translateVars, commandVars, viewVars, other, reloader>>

RepeatNext == Normalize \/ Reinvoke

SpecRepeat == RepeatInit /\ [][RepeatNext]_vars

(* every invocation that has returned, the current one last *)
Returns ==
    IF pc = "done" THEN Append(runs, Run(op, text, data.items, result)) ELSE runs

SameInputs(a, b) == a.op = b.op /\ a.text = b.text /\ a.items = b.items

(* C27: normalization is deterministic and stateless: any two invocations of
   one process that were given the same function, the same text and the same
   raw response returned identical results (text, word_analysis entries in
   order, error), whatever was invoked before or between them. *)
C27_SameInputsSameResult ==
    \A i, j \in 1..Len(Returns) :
        SameInputs(Returns[i], Returns[j]) => Returns[i].result = Returns[j].result

(* the third invocation repeats the first, after a different one in between,
   and returned entries *)
C27_Witness ==
    /\ pc = "done"
    /\ Len(runs) = 2
    /\ SameInputs(runs[1], Run(op, text, data.items, result))
    /\ ~SameInputs(runs[2], runs[1])
    /\ runs[2].result.word_analysis # <<>>
    /\ result.word_analysis # <<>>

----------------------------------------------------------------------------
(* The genre of a request *)

(* the request frame opens every connection that was made *)
RequestOf(c) == c.sent[1]

(* C28: every request frame the translation path sends carries a genre of
   TRANSLATION_GENRES, for the default genre and for every genre the view lets
   the user select. *)
C28_GenreEnumerated ==
    \A i \in 1..Len(conns) :
        conns[i].sent # <<>> => RequestOf(conns[i]).genre \in TRANSLATION_GENRES

----------------------------------------------------------------------------
(* What translate raises *)

(* C29: a failed call of translate raises ValueError to its caller when the
   translation failed and a WebSocketException when the connection failed; no
   exception of another type reaches the caller. *)
C29_ValueErrorOrWebSocketException ==
    tpc = "raised" => tout.exc.type = "ValueError" \/ IsWebSocketException(tout.exc)

----------------------------------------------------------------------------
(* Unicode canonical composed form (src/utils/hebrew.py) and the vowelized
   text (SpecNikud) *)

(* the canonical combining class of a code point: the Hebrew points used here
   (QAMATS 18, DAGESH 21, SHIN DOT 24); letters and spaces are starters *)
CombiningClass(c) ==
    CASE c = 1464 -> 18
      [] c = 1468 -> 21
      [] c = 1473 -> 24
      [] OTHER -> 0

(* canonical ordering, one mark at a time: the mark moves left past the marks
   of a higher class *)
RECURSIVE InsertMark(_, _)
InsertMark(out, c) ==
    IF out # <<>> /\ CombiningClass(c) > 0
                  /\ CombiningClass(out[Len(out)]) > CombiningClass(c)
    THEN Append(InsertMark(SubSeq(out, 1, Len(out) - 1), c), out[Len(out)])
    ELSE Append(out, c)

RECURSIVE CanonicalOrder(_, _)
CanonicalOrder(s, out) ==
    IF s = <<>> THEN out ELSE CanonicalOrder(Tail(s), InsertMark(out, Head(s)))

(* normalize_hebrew: unicodedata.normalize('NFC', text).  Hebrew letters with
   points have no precomposed form that NFC composes to (the presentation forms
   are composition exclusions), so NFC is the canonical ordering of the marks *)
normalize_hebrew(s) == CanonicalOrder(s, <<>>)

MaxMarks == 2

(* the points the service puts on a letter, in any order it likes *)
Marks == {1464, 1468, 1473}
MarkRuns == UNION {[1..n -> Marks] : n \in 0..MaxMarks}

(* the vowelized forms of the word SHIN *)
Shin == <<1513>>
NikudForms == {Shin \o r : r \in MarkRuns}

NikudTexts == {Shin, Shin \o <<32>> \o Shin}
NikudData ==
    {Returned(<<DictItem(TRUE, TRUE, Shin, <<OptStr(f)>>)>>) : f \in NikudForms}
        \cup {Returned(<<DictItem(TRUE, TRUE, Shin, <<OptStr(f)>>),
                         DictItem(TRUE, TRUE, Shin, <<OptStr(g)>>)>>) :
                  f \in NikudForms, g \in NikudForms}

(* get_nikud at the point where _call_nakdan_api has returned the token
   records on its first attempt *)
NikudInit ==
    /\ op = "get_nikud"
    /\ text \in NikudTexts
    /\ max_length = MAX_TEXT_LENGTH
    /\ pc = "normalize"
    /\ attempt = 1
    /\ requests = <<Payload(text, TaskOf("get_nikud"))>>
    /\ exc = NoExc
    /\ onlyTransient = TRUE
    /\ data \in NikudData
    /\ result = NoResult
    /\ clients = <<Close("open")>>
    /\ TranslateIdle
    /\ CommandIdle
    /\ FirstRun
    /\ ReloaderIdle

NikudNext == Normalize

SpecNikud == NikudInit /\ [][NikudNext]_vars

(* C30: the text the vowelize operation returns is in Unicode canonical
   composed form, whatever order the service emitted letters and points in:
   NFC of the text of a successful result is that text, and normalizing the
   normalized text again changes nothing. *)
C30_TextIsNFC ==
    NikudSucceeded =>
        /\ normalize_hebrew(result.text) = result.text
        /\ normalize_hebrew(normalize_hebrew(result.text)) = normalize_hebrew(result.text)

----------------------------------------------------------------------------
(* Two translate calls on one DictaTranslateAPI instance (SpecConcurrent) *)

(* a read loop whose list is kept on the instance, shared by the calls *)
ChunksOfInstance(c) == translated_chunks

(* translated_chunks = []: the list is a local of the call *)
ChunksOfCall(c) == c.chunks

(* both calls have been made with the same text and neither has started; they
   run as two tasks of one event loop, switching at each await *)
ConcurrentInit ==
    /\ other = Call("call", 0, <<>>, <<>>, NoOutcome)
    /\ tpc = "call"
    /\ tattempt = 0
    /\ conns = <<>>
    /\ translated_chunks = <<>>
    /\ clock = 0
    /\ tout = NoOutcome
    /\ NakdanIdle
    /\ CommandIdle
    /\ FirstRun
    /\ ReloaderIdle

(* the second call starts an attempt: its own websockets.connect and request *)
OtherConnect ==
    /\ other.tpc = "call"
    /\ \E o \in ConnectOutcomes :
         IF o = "connected"
         THEN other' = [other EXCEPT !.tattempt = @ + 1,
                                     !.conns = Append(@, Connection(text)),
                                     !.chunks = <<>>,
                                     !.tpc = "recv"]
         ELSE LET a == AfterFailure(Reraise(Exc(o, "", 0)), other.tattempt + 1)
              IN other' = [other EXCEPT !.tattempt = @ + 1,
                                        !.conns = Append(@, NoConnection),
                                        !.chunks = <<>>,
                                        !.tpc = a.tpc,
                                        !.tout = a.tout]
    /\ UNCHANGED <<nakdanVars, translateVars, commandVars, viewVars, runs, reloader>>

(* one turn of the read loop of the second call, on its own connection *)
OtherRecv ==
    /\ other.tpc = "recv"
    /\ clock < MaxFrames
    /\ clock' = clock + 1
    /\ \E f \in ServiceFrames :
         LET cur == Len(other.conns)
             h == HandleFrame(f, ChunksOfCall(other))
             logged == [other.conns EXCEPT ![cur].received = Append(@, f)]
             closed == [logged EXCEPT ![cur].state = Close(@)]
             failed(e) == LET a == AfterFailure(Reraise(e), other.tattempt)
                          IN [other EXCEPT !.conns = closed, !.chunks = <<>>,
                                           !.tpc = a.tpc, !.tout = a.tout]
         IN IF h.exc # NoExc
            THEN other' = failed(h.exc)
            ELSE IF h.complete
            THEN IF h.chunks = <<>>
                 THEN other' = failed(Exc("ValueError", "No translation received", 0))
                 ELSE other' = [other EXCEPT !.conns = closed, !.chunks = <<>>,
                                             !.tpc = "returned",
                                             !.tout = ReturnedStr(Join(h.chunks, <<32>>))]
            ELSE other' = [other EXCEPT
                              !.conns = [logged EXCEPT ![cur].sent =
                                            IF h.pong THEN SendPong(@) ELSE @],
                              !.chunks = h.chunks]
    /\ UNCHANGED <<nakdanVars, tpc, tattempt, conns, translated_chunks, tout, commandVars,
                   viewVars, runs, reloader>>

(* ws.recv() of the second call raises ConnectionClosed *)
OtherConnectionLost ==
    /\ other.tpc = "recv"
    /\ LET a == AfterFailure(Reraise(Exc("ConnectionClosed", "", 0)), other.tattempt)
       IN other' = [other EXCEPT !.conns[Len(other.conns)].state = Close(@),
                                 !.chunks = <<>>,
                                 !.tpc = a.tpc,
                                 !.tout = a.tout]
    /\ UNCHANGED <<nakdanVars, translateVars, commandVars, viewVars, runs, reloader>>

(* tenacity sleeps and starts the next attempt of the second call *)
OtherBackoff ==
    /\ other.tpc = "wait"
    /\ other' = [other EXCEPT !.tpc = "call"]
    /\ UNCHANGED <<nakdanVars, translateVars, commandVars, viewVars, runs, reloader>>

OtherNext == OtherConnect \/ OtherRecv \/ OtherConnectionLost \/ OtherBackoff

ConcurrentNext == TranslateNext \/ OtherNext

SpecConcurrent == ConcurrentInit /\ [][ConcurrentNext]_vars

(* the frames received during the latest attempt of the second call *)
OtherSession == IF other.conns = <<>> THEN <<>> ELSE other.conns[Len(other.conns)].received

(* C31: two calls running concurrently on one instance do not interfere: each
   call has one connection per attempt of its own, with its own request frame,
   and a call that returned a translation returned exactly the fragments
   received on the connection of its own last attempt, joined in arrival order,
   whatever the other call received meanwhile. *)
C31_NoInterference ==
    /\ Len(conns) = tattempt
    /\ Len(other.conns) = other.tattempt
    /\ \A i \in 1..Len(conns) : Len(RequestsOn(conns[i])) <= 1
    /\ \A i \in 1..Len(other.conns) : Len(RequestsOn(other.conns[i])) <= 1
    /\ tpc = "returned" => tout = ReturnedStr(Join(Fragments(Session), <<32>>))
    /\ other.tpc = "returned" =>
          other.tout = ReturnedStr(Join(Fragments(OtherSession), <<32>>))

(* the second call returned its single fragment while the first call, still in
   its read loop, holds a fragment of its own *)
C31_Witness ==
    /\ other.tpc = "returned"
    /\ OtherSession = <<OutFrame(OutH), DoneFrame>>
    /\ other.tout.value = OutH
    /\ tpc = "recv"
    /\ translated_chunks = <<OutH>>

----------------------------------------------------------------------------
(* Malformed BGU blocks *)

(* the lines of the stripped BGU text of a record *)
BGULines(item) == SplitOn(Strip(item.BGU.s), 10, <<>>)

(* the BGU text is not exactly one header line and one value line *)
MalformedBGU(item) == item.hasBGU /\ item.BGU.isStr /\ Len(BGULines(item)) # 2

(* C32: a malformed BGU block degrades only its own word: when analyze_text
   has returned, the batch was not aborted (no error, one entry per record),
   every record whose BGU text is not exactly a header line and a value line
   (one line, or three or more) has all morphological fields empty, and every
   record with a well-formed block has the values of its own block. *)
C32_MalformedDegradesOwnWord ==
    (pc = "done" /\ op = "analyze_text" /\ data.returned) =>
        /\ exc = NoExc
        /\ result.set /\ result.error = None
        /\ Len(result.word_analysis) = Len(data.items)
        /\ \A i \in 1..Len(data.items) :
             LET entry == result.word_analysis[i]
                 item == data.items[i]
             IN /\ MalformedBGU(item) => \A k \in MorphFields : entry.val[k] = <<>>
                /\ WellFormedBGU(item) =>
                     \E b \in Blocks :
                        /\ item.BGU.s = BGUText(b)
                        /\ \A k \in MorphFields : entry.val[k] = Lookup(b, BGUHeader[k])

----------------------------------------------------------------------------
(* Fields read from a BGU block *)

(* the value in the column of header h of a block: '' when the block has no
   such header or its value line ends before that column *)
ColumnValue(b, h) ==
    LET at == {i \in 1..Len(b.headers) : b.headers[i] = h /\ i <= Len(b.values)}
    IN IF at = {} THEN <<>> ELSE b.values[CHOOSE i \in at : TRUE]

AllBlocks == Blocks \cup MoreBlocks

(* the record carries the text of block b *)
CarriesBlock(item, b) == item.hasBGU /\ item.BGU.isStr /\ item.BGU.s = BGUText(b)

(* C33: when analyze_text has returned, the entry of every record that carries
   a block of a header line and a value line has each of lemma, pos, gender,
   number, person, tense, binyan, status equal to the value in the column of
   its header ('' when the header is absent or its column has no value), has
   word, prefix, suffix and menukad as the split of the token left them
   whatever other headers the block holds, and has suf_gender, suf_person,
   suf_number equal to their columns when the suffix is non-empty and ''
   otherwise. *)
C33_FieldsFromColumns ==
    (pc = "done" /\ op = "analyze_text" /\ data.returned) =>
        \A i \in 1..Len(data.items) : \A b \in AllBlocks :
            CarriesBlock(data.items[i], b) =>
                LET entry == result.word_analysis[i]
                    parts == SplitOn(data.items[i].word, SEPARATOR, <<>>)
                IN /\ \A k \in MorphFields : entry.val[k] = ColumnValue(b, BGUHeader[k])
                   /\ entry.val["word"] = data.items[i].word
                   /\ entry.val["suffix"] = (IF Len(parts) > 2 THEN parts[Len(parts)] ELSE <<>>)
                   /\ entry.val["prefix"] = (IF Len(parts) > 1 THEN parts[1] ELSE <<>>)
                   /\ \A k \in DOMAIN BGUSuffixHeader :
                        entry.val[k] = (IF entry.val["suffix"] # <<>>
                                        THEN ColumnValue(b, BGUSuffixHeader[k])
                                        ELSE <<>>)

(* one response with the same block on a token with a suffix and on a token
   without: the first entry has the suffix features, the second has none, and a
   record with a short value line has its lemma and an empty pos *)
C33_Witness ==
    /\ pc = "done" /\ op = "analyze_text" /\ data.returned /\ result.error = None
    /\ Len(data.items) = 3
    /\ data.items[1].word = WordWithSuffix /\ CarriesBlock(data.items[1], SuffixBlock)
    /\ data.items[2].word = W1 /\ CarriesBlock(data.items[2], SuffixBlock)
    /\ CarriesBlock(data.items[3], FewValuesBlock)
    /\ result.word_analysis[1].val["suf_gender"] = <<70>>
    /\ result.word_analysis[1].val["pos"] = <<78>>
    /\ result.word_analysis[2].val["suf_gender"] = <<>>
    /\ result.word_analysis[3].val["lemma"] = W1
    /\ result.word_analysis[3].val["pos"] = <<>>

----------------------------------------------------------------------------
(* Splitting a token on the separator (SpecParts) *)

MaxTokenLen == 6

(* tokens of a letter and the separator '|' *)
RECURSIVE TokensOfLen(_)
TokensOfLen(n) ==
    IF n = 0 THEN {<<>>}
    ELSE {<<c>> \o t : c \in {1488, SEPARATOR}, t \in TokensOfLen(n - 1)}
Tokens == UNION {TokensOfLen(n) : n \in 1..MaxTokenLen}

(* analyze_text at the point where _call_nakdan_api has returned one token
   record whose 'word' is any token *)
PartsInit ==
    /\ op = "analyze_text"
    /\ text = W1
    /\ max_length = MAX_TEXT_LENGTH
    /\ pc = "normalize"
    /\ attempt = 1
    /\ requests = <<Payload(W1, TaskOf("analyze_text"))>>
    /\ exc = NoExc
    /\ onlyTransient = TRUE
    /\ data \in {Returned(<<DictItem(TRUE, TRUE, w, <<>>)>>) : w \in Tokens}
    /\ result = NoResult
    /\ clients = <<Close("open")>>
    /\ TranslateIdle
    /\ CommandIdle
    /\ FirstRun
    /\ ReloaderIdle

PartsNext == Normalize

SpecParts == PartsInit /\ [][PartsNext]_vars

(* C34: when analyze_text has returned, the entry of every token record keeps
   the unsplit token in 'word'; with 1 part prefix and suffix are empty and the
   stem (menukad) is the token; with 2 parts prefix is part 1, the stem part 2
   and the suffix empty; with 3 or more parts prefix is the first part, suffix
   the last and the stem the middle parts rejoined with '|'; and with 2 or
   more parts prefix, stem and (for 3 or more parts) suffix joined with '|'
   give the token. *)
C34_SplitOnSeparator ==
    (pc = "done" /\ op = "analyze_text" /\ data.returned) =>
        /\ result.error = None
        /\ Len(result.word_analysis) = Len(data.items)
        /\ \A i \in 1..Len(data.items) :
             LET token == data.items[i].word
                 parts == SplitOn(token, SEPARATOR, <<>>)
                 n == Len(parts)
                 prefix == result.word_analysis[i].val["prefix"]
                 stem == result.word_analysis[i].val["menukad"]
                 suffix == result.word_analysis[i].val["suffix"]
             IN /\ result.word_analysis[i].val["word"] = token
                /\ n = 1 => prefix = <<>> /\ suffix = <<>> /\ stem = token
                /\ n = 2 => /\ prefix = parts[1] /\ stem = parts[2] /\ suffix = <<>>
                            /\ Join(<<prefix, stem>>, <<SEPARATOR>>) = token
                /\ n >= 3 => /\ prefix = parts[1] /\ suffix = parts[n]
                             /\ stem = Join(SubSeq(parts, 2, n - 1), <<SEPARATOR>>)
                             /\ Join(<<prefix, stem, suffix>>, <<SEPARATOR>>) = token

(* the token '|א|א|א' of four parts: empty prefix, the stem
   'א|א' rejoined from the two middle parts, the last part as suffix *)
C34_Witness ==
    /\ pc = "done" /\ op = "analyze_text" /\ data.returned
    /\ data.items[1].word = <<SEPARATOR>> \o WordWithSuffix
    /\ result.word_analysis[1].val["word"] = <<SEPARATOR>> \o WordWithSuffix
    /\ result.word_analysis[1].val["prefix"] = <<>>
    /\ result.word_analysis[1].val["menukad"] = <<1488, SEPARATOR, 1488>>
    /\ result.word_analysis[1].val["suffix"] = W1

----------------------------------------------------------------------------
(* The candidates of a token record (SpecCandidates) *)

W2 == <<1489>>            \* a second word: BET
L1 == <<1500>>            \* a lemma: LAMED

(* the shapes of an 'options' list: empty; a string candidate; a list
   candidate that is empty, has one element, starts with a list, has a string
   or an empty list as second element, a nested entry of one element, a nested
   entry of two strings, a nested entry whose second element is not a string *)
CandidateOptions ==
    {<<>>,
     <<OptStr(V1)>>,
     <<OptList(<<>>)>>,
     <<OptList(<<ElemStr(V1)>>)>>,
     <<OptList(<<ElemList(<<>>)>>)>>,
     <<OptList(<<ElemStr(V1), ElemStr(V1)>>)>>,
     <<OptList(<<ElemStr(V1), ElemList(<<>>)>>)>>,
     <<OptList(<<ElemStr(V1), ElemList(<<<<L1>>>>)>>)>>,
     <<OptList(<<ElemStr(V1), ElemList(<<<<W1, L1>>>>)>>)>>,
     <<OptList(<<ElemStr(V1), ElemList(<<<<W1, NotStr>>>>)>>)>>}

(* token records that pass the validation of _call_nakdan_api, and a
   pass-through string *)
CandidateItems ==
    {DictItem(TRUE, TRUE, w, o) : w \in {W1, W2}, o \in CandidateOptions}
        \cup {StrItem(<<32>>)}

CandidateTexts == {W1 \o <<32>> \o W2}

(* an operation at the point where _call_nakdan_api has returned *)
CandidatesInit ==
    /\ op \in Ops
    /\ text \in CandidateTexts
    /\ max_length = MAX_TEXT_LENGTH
    /\ pc = "normalize"
    /\ attempt = 1
    /\ requests = <<Payload(text, TaskOf(op))>>
    /\ exc = NoExc
    /\ onlyTransient = TRUE
    /\ data \in {Returned(l) : l \in UNION {[1..n -> CandidateItems] : n \in 1..MaxTokens}}
    /\ result = NoResult
    /\ clients = <<Close("open")>>
    /\ TranslateIdle
    /\ CommandIdle
    /\ FirstRun
    /\ ReloaderIdle

CandidatesNext == Normalize \/ Except

SpecCandidates == CandidatesInit /\ [][CandidatesNext]_vars

(* the first candidate of a record as text, for the operation: options[0] for
   get_nikud, options[0][0] for analyze_text; unusable when it is not a string *)
FirstCandidate(o, item) ==
    IF item.options = <<>> THEN [usable |-> FALSE, s |-> <<>>]
    ELSE IF o = "get_nikud"
         THEN [usable |-> ~item.options[1].isList, s |-> item.options[1].val]
         ELSE IF item.options[1].isList /\ item.options[1].elems # <<>>
              THEN [usable |-> item.options[1].elems[1].isStr, s |-> item.options[1].elems[1].s]
              ELSE [usable |-> FALSE, s |-> <<>>]

(* the form the claim gives a response item *)
VowelizedForm(o, item) ==
    IF item.kind = "dict" /\ FirstCandidate(o, item).usable
    THEN FirstCandidate(o, item).s
    ELSE item.word

(* the forms in response order, each after the whitespace the input has at its
   position (get_nikud) or one after the other (analyze_text) *)
RECURSIVE FormsInOrder(_, _, _)
FormsInOrder(forms, spaces, i) ==
    IF i > Len(forms) THEN <<>>
    ELSE (IF i <= Len(spaces) THEN spaces[i] ELSE <<>>) \o forms[i]
             \o FormsInOrder(forms, spaces, i + 1)

(* C35: when get_nikud or analyze_text has returned for a validated response,
   the request has not failed and the text is made of one form per response
   item, in response order: the first candidate of the record, or the token
   itself when the candidate list is empty or the first candidate is not
   usable as text. *)
C35_FirstCandidateOrToken ==
    (pc = "done" /\ op \in {"get_nikud", "analyze_text"} /\ data.returned) =>
        /\ exc = NoExc
        /\ result.set /\ result.error = None
        /\ LET forms == [i \in 1..Len(data.items) |-> VowelizedForm(op, data.items[i])]
               spaces == IF op = "get_nikud" THEN OriginalSpaces(text) ELSE <<>>
               tail == IF op = "get_nikud" /\ Len(spaces) > Len(forms)
                       THEN spaces[Len(spaces)] ELSE <<>>
           IN result.text = HebrewNormalize(FormsInOrder(forms, spaces, 1) \o tail)

(* get_nikud('א ב') on a record with a string candidate followed
   by a record with a list candidate: the vowelized form, then the token BET *)
C35_Witness ==
    /\ pc = "done" /\ op = "get_nikud" /\ data.returned /\ result.error = None
    /\ Len(data.items) = 2
    /\ data.items[1] = DictItem(TRUE, TRUE, W1, <<OptStr(V1)>>)
    /\ data.items[2] = DictItem(TRUE, TRUE, W2, <<OptList(<<ElemStr(V1)>>)>>)
    /\ result.text = V1 \o <<32>> \o W2

----------------------------------------------------------------------------
(* Lemmas of token records *)

(* the path options[0][1][0][1] exists in the record *)
LemmaPathExists(item) ==
    /\ item.options # <<>>
    /\ item.options[1].isList
    /\ Len(item.options[1].elems) >= 2
    /\ ~item.options[1].elems[2].isStr
    /\ Len(item.options[1].elems[2].l) >= 1
    /\ Len(item.options[1].elems[2].l[1]) >= 2

(* C36: when get_lemmas has returned for a validated response, the request has
   not failed and every token record has, at its position, an entry of exactly
   the keys word and lemma, where word is the token and lemma the value at
   options[0][1][0][1] when that path exists and the token otherwise. *)
C36_LemmaOrToken ==
    (pc = "done" /\ op = "get_lemmas" /\ data.returned) =>
        /\ exc = NoExc
        /\ result.set /\ result.error = None
        /\ Len(result.word_analysis) = Len(data.items)
        /\ \A i \in 1..Len(data.items) :
             data.items[i].kind = "dict" =>
                /\ result.word_analysis[i].keys = {"word", "lemma"}
                /\ result.word_analysis[i].val["word"] = data.items[i].word
                /\ result.word_analysis[i].val["lemma"] =
                      (IF LemmaPathExists(data.items[i])
                       THEN data.items[i].options[1].elems[2].l[1][2]
                       ELSE data.items[i].word)

----------------------------------------------------------------------------
(* Answers at the length limit (SpecLong) *)

(* candidates of exactly MAX_TEXT_LENGTH code points and of one more *)
AtLimit == [i \in 1..MAX_TEXT_LENGTH |-> 1488]
OverLimit == [i \in 1..(MAX_TEXT_LENGTH + 1) |-> 1488]

(* token records whose vowelized form and lemma are short, at the limit or
   over it, in the shape get_nikud reads and in the shape analyze_text and
   get_lemmas read *)
LongItems ==
    UNION {{DictItem(TRUE, TRUE, W1, <<OptStr(x)>>),
            DictItem(TRUE, TRUE, W1, <<OptList(<<ElemStr(x), ElemList(<<<<W1, x>>>>)>>)>>)}
              : x \in {V1, AtLimit, OverLimit}}

(* an operation called directly, or by a command that has deferred, at the
   point where _call_nakdan_api has returned on the first attempt; the input
   is one Hebrew letter, within the limit *)
LongInit ==
    /\ \/ op \in Ops /\ CommandIdle
       \/ /\ command \in Commands
          /\ cpc = "deferred"
          /\ messages = <<>>
          /\ op = OpOf(command)
          /\ vpc = "none" /\ direction = "he-en" /\ genre = "modern" /\ acked = TRUE
    /\ text = W1
    /\ max_length = MAX_TEXT_LENGTH
    /\ pc = "normalize"
    /\ attempt = 1
    /\ requests = <<Payload(W1, TaskOf(op))>>
    /\ exc = NoExc
    /\ onlyTransient = TRUE
    /\ data \in {Returned(l) : l \in UNION {[1..n -> LongItems] : n \in 1..MaxTokens}}
    /\ result = NoResult
    /\ clients = <<Close("open")>>
    /\ TranslateIdle
    /\ FirstRun
    /\ ReloaderIdle

LongNext == Normalize \/ Except \/ Render \/ ErrorHandlers

SpecLong == LongInit /\ [][LongNext]_vars

(* the text the operation assembles from the response *)
AssembledText ==
    CASE op = "analyze_text" -> AnalyzeText(data.items)
      [] op = "get_lemmas" -> LemmaText(data.items)
      [] op = "get_nikud" -> NikudText(text, data.items)

(* C37: the text of every result an operation has returned is at most
   MAX_TEXT_LENGTH code points long; when the text assembled from the response
   is longer, the result is an error result with empty text. *)
C37_TextWithinLimit ==
    (pc = "done" /\ result.set) =>
        /\ Len(result.text) <= MAX_TEXT_LENGTH
        /\ (data.returned /\ Len(AssembledText) > MAX_TEXT_LENGTH) =>
              /\ ~result.error.isNone
              /\ result.text = <<>>
              /\ result.word_analysis = <<>>
        /\ (data.returned /\ Len(AssembledText) <= MAX_TEXT_LENGTH /\ exc = NoExc) =>
              result.text = AssembledText

(* get_nikud of one letter whose only record has a vowelized form of
   MAX_TEXT_LENGTH + 1 code points: an error result with empty text *)
C37_Witness ==
    /\ pc = "done" /\ op = "get_nikud" /\ text = W1
    /\ data.returned /\ data.items = <<DictItem(TRUE, TRUE, W1, <<OptStr(OverLimit)>>)>>
    /\ Len(AssembledText) = MAX_TEXT_LENGTH + 1
    /\ result.set /\ ~result.error.isNone /\ result.text = <<>>

----------------------------------------------------------------------------
(* The copy of a failure past validation *)

(* the three copies format_error_message keeps for validation failures *)
ValidationCopies ==
    {"Text is too long! Please keep it under 500 characters.",
     "Please provide Hebrew text. Example: ...",
     "Please provide some text. Example: ..."}

(* C38: a command whose input passed _check_text_requirements and whose call
   failed afterwards, in the transport or in the normalization step, has
   rendered the generic processing-issue message and none of the 'too long',
   'provide Hebrew text', 'provide some text' copies. *)
C38_GenericCopyPastValidation ==
    (cpc = "returned" /\ FailedPastValidation) =>
        /\ Len(messages) = 1
        /\ messages[1].copy \notin ValidationCopies
        /\ messages[1].copy = "Sorry, there was an issue processing your text: "

----------------------------------------------------------------------------
(* The reload supervisor of run.py (SpecReload) *)

MaxEvents == 3     \* modifications of watched files during one run

(* BotReloader.__init__ has created the task of start_bot, main has started the
   observer and created the task of process_events; no task has run yet *)
ReloadInit ==
    /\ reloader = Reloader("start", "idle")
    /\ NakdanIdle
    /\ TranslateIdle
    /\ CommandIdle
    /\ FirstRun

(* start_bot up to its first suspension: cleanup() returns at once when
   self.process is None, so the task goes on to create_subprocess_exec;
   otherwise it calls self.process.terminate() and waits for that process *)
BeginStart(k, r) ==
    IF r.process = 0
    THEN [r EXCEPT ![k] = "spawning"]
    ELSE [r EXCEPT ![k] = "waiting", !.target[k] = r.process]

(* the task created in __init__ runs start_bot, without restart_lock *)
InitialStart ==
    /\ reloader.start = "start"
    /\ reloader' = BeginStart("start", reloader)
    /\ UNCHANGED <<nakdanVars, translateVars, commandVars, viewVars, runs, other>>

(* on_modified, called on the observer's thread for a watched file: the event
   is put on the queue *)
on_modified ==
    /\ reloader.events # "none"
    /\ reloader.modified < MaxEvents
    /\ reloader' = [reloader EXCEPT !.queue = @ + 1, !.modified = @ + 1]
    /\ UNCHANGED <<nakdanVars, translateVars, commandVars, viewVars, runs, other>>

(* process_events takes an event off the queue and awaits handle_modified,
   which takes restart_lock and awaits start_bot *)
handle_modified ==
    /\ reloader.events = "idle"
    /\ reloader.queue > 0
    /\ ~reloader.lock
    /\ reloader' = BeginStart("events", [reloader EXCEPT !.queue = @ - 1, !.lock = TRUE])
    /\ UNCHANGED <<nakdanVars, translateVars, commandVars, viewVars, runs, other>>

(* cleanup: the terminated process exits within the five seconds and
   wait_for(self.process.wait()) returns *)
WaitReturns(k) ==
    /\ reloader[k] = "waiting"
    /\ reloader' = [reloader EXCEPT !.alive = @ \ {reloader.target[k]}, ![k] = "spawning"]
    /\ UNCHANGED <<nakdanVars, translateVars, commandVars, viewVars, runs, other>>

(* cleanup: the process is still running after five seconds; except
   asyncio.TimeoutError: self.process.kill(), then await self.process.wait(),
   both on the process self.process names at that moment *)
WaitTimesOut(k) ==
    /\ reloader[k] = "waiting"
    /\ reloader.target[k] \in reloader.alive
    /\ reloader' = [reloader EXCEPT !.alive = @ \ {reloader.process},
                                    !.killed = @ \cup {reloader.process},
                                    !.target[k] = reloader.process,
                                    ![k] = "killed"]
    /\ UNCHANGED <<nakdanVars, translateVars, commandVars, viewVars, runs, other>>

(* cleanup: the wait after kill() returns *)
KillWaitReturns(k) ==
    /\ reloader[k] = "killed"
    /\ reloader' = [reloader EXCEPT ![k] = "spawning"]
    /\ UNCHANGED <<nakdanVars, translateVars, commandVars, viewVars, runs, other>>

(* create_subprocess_exec returns: the new bot process runs and is assigned to
   self.process; start_bot ends, and with it handle_modified, which releases
   restart_lock *)
Spawned(k) ==
    /\ reloader[k] = "spawning"
    /\ reloader' = [reloader EXCEPT !.spawned = @ + 1,
                                    !.alive = @ \cup {reloader.spawned + 1},
                                    !.process = reloader.spawned + 1,
                                    ![k] = IF k = "start" THEN "done" ELSE "idle",
                                    !.lock = IF k = "events" THEN FALSE ELSE @]
    /\ UNCHANGED <<nakdanVars, translateVars, commandVars, viewVars, runs, other>>

ReloaderTasks == {"start", "events"}

ReloadNext ==
    \/ InitialStart
    \/ on_modified
    \/ handle_modified
    \/ \E k \in ReloaderTasks : WaitReturns(k)
    \/ \E k \in ReloaderTasks : WaitTimesOut(k)
    \/ \E k \in ReloaderTasks : KillWaitReturns(k)
    \/ \E k \in ReloaderTasks : Spawned(k)

SpecReload == ReloadInit /\ [][ReloadNext]_vars

(* C39: the reload supervisor keeps at most one bot process alive: at no time
   are two spawned bot processes running, and every running bot process is the
   one self.process names, so a spawn happens only when the process spawned
   before it has been terminated or killed and waited for. *)
C39_AtMostOneBot ==
    /\ Cardinality(reloader.alive) <= 1
    /\ \A p \in reloader.alive : p = reloader.process

----------------------------------------------------------------------------
(* The fields of the analyze embed *)

(* the keys whose values the analyze command of src/commands/analyze.py shows *)
ShownKeys ==
    {"prefix", "menukad", "lemma", "pos", "gender", "number", "person", "status", "tense",
     "binyan", "suffix"}

(* analyze of src/commands/analyze.py: the loop runs over word_analysis[:-1]
   and adds one field for every entry that is not an empty dict and has a value
   to show *)
AnalyzeCogFields(wa) ==
    Cardinality({i \in 1..(Len(wa) - 1) :
                    wa[i].keys # {} /\ \E k \in ShownKeys : wa[i].val[k] # <<>>})

(* the entries of the result that are not empty dicts *)
AnalysedWords(wa) == {i \in 1..Len(wa) : wa[i].keys # {}}

(* C40: the analyze command renders every analysed word: once it is over with
   a successful result, it has rendered one embed whose number of fields is
   the number of non-empty word_analysis entries, the last entry included, and
   the loop of src/commands/analyze.py counts the same number of fields. *)
C40_FieldPerAnalysedWord ==
    (command = "analyze" /\ CommandOver /\ result.set /\ result.error.isNone) =>
        /\ Len(messages) = 1
        /\ messages[1].kind = "embed"
        /\ messages[1].fields = Cardinality(AnalysedWords(result.word_analysis))
        /\ AnalyzeCogFields(result.word_analysis) = Cardinality(AnalysedWords(result.word_analysis))

====
